---- MODULE Spec2Model ----
(***************************************************************************)
(* A model of go-mcp-tools: the parse cache (fileCache), the position      *)
(* resolver (createGoplsPosition), Rename, Inspect with its formatters,    *)
(* and the scope builder (buildScopeHierarchyAtLine).                      *)
(* Each component has its own specification over the shared variables;     *)
(* the variables of the other components stay at their initial values.     *)
(***************************************************************************)
EXTENDS Integers, Sequences, FiniteSets, TLC

\* ------------------------------------------------------------------ bounds
\* Number of modifications a file on disk undergoes.
MaxMods == 2
\* Number of parses (cachedFile instances allocated) in one behaviour.
MaxParses == 3

\* =================================================================
\*  PART 1.  fileCache  (GetOrParseFile, ClearCache, RemoveFile, GetCacheStats)
\* =================================================================

VARIABLES
    files,      \* cache.files : path -> cachedFile | NoEntry
    mu,         \* cache.mu : [readers : set of threads, writer : thread or 0]
    disk,       \* the file system : path -> [exists, mtime, ver]
    nextId,     \* allocation counter: identity of the next cachedFile
    pc,         \* per thread: position inside the running cache method
    arg,        \* per thread: the filePath argument
    cached,     \* per thread: local `cached`
    exists,     \* per thread: local `exists`
    src,        \* per thread: content version read by os.ReadFile (-1: none)
    ret,        \* per thread: what the call returned
    hist        \* per thread: what the running call has done (observation only)

cacheVars == <<files, mu, disk, nextId, pc, arg, cached, exists, src, ret, hist>>

VARIABLES
    posFile,    \* createGoplsPosition: the filePath argument
    posLine,    \* the lineNumber argument
    posSymbol,  \* the symbolName argument
    posContent, \* the content of the file a.go on disk
    posResult   \* what the call returned: [state, err, position]

posVars == <<posFile, posLine, posSymbol, posContent, posResult>>

VARIABLES
    renArgs,     \* Rename: [filePath, lineNumber, symbolName, newName]
    renContent,  \* the content of a.go when Rename is called
    renPc,       \* where Rename stands: called, position, gopls, done
    renPosition, \* local `position`
    renResult,   \* what Rename returned: [out, err]
    renCalls,    \* calls made so far: [position, gopls]
    renWrites,   \* number of times the external tool rewrote the sources
    renGopls     \* how the external tool answered (observation only)

renVars == <<renArgs, renContent, renPc, renPosition, renResult, renCalls, renWrites, renGopls>>

VARIABLES
    insDecls,    \* Inspect: the declarations of the inspected file a.go (templates)
    insParse,    \* what parser.ParseFile makes of a.go: tree, partial, notree
    insReq,      \* the arguments: [path, lineNumber, symbolName, includePrivate, workspaceDir]
    insAnswers,  \* what gopls answers: [references, implementation, call_hierarchy]
    insRun,      \* number of Inspect calls made with these arguments
    insOut       \* the result of each call: [out, err, calls]

insVars == <<insDecls, insParse, insReq, insAnswers, insRun, insOut>>

VARIABLES
    scDecls,     \* buildScopeHierarchyAtLine: the declarations of the parsed file
    scLine,      \* the target line
    scResult     \* [state, hierarchy]: the frames returned

scVars == <<scDecls, scLine, scResult>>

VARIABLES
    tgtArgs,     \* handleInspect: the arguments [segs, workspace_dir, only_exported];
                 \* the "path" argument is the segments joined by ':'
    tgtResult    \* [state, err, call]: the error, or the arguments passed to Inspect

tgtVars == <<tgtArgs, tgtResult>>

\* everything but the cache
nonCacheVars == <<posVars, renVars, insVars, scVars, tgtVars>>
\* everything but the position resolver
nonPosVars == <<cacheVars, renVars, insVars, scVars, tgtVars>>
\* everything but Rename
nonRenVars == <<cacheVars, posVars, insVars, scVars, tgtVars>>
\* everything but Inspect
nonInsVars == <<cacheVars, posVars, renVars, scVars, tgtVars>>
\* everything but the scope builder
nonScVars == <<cacheVars, posVars, renVars, insVars, tgtVars>>
\* everything but the handler of the inspect tool
nonTgtVars == <<cacheVars, posVars, renVars, insVars, scVars>>

Threads == {1, 2}
Paths == {"a.go", "b.go"}
NoEntry == [id |-> 0, modTime |-> 0, ver |-> 0, filePath |-> ""]
\* what a call returned: a *cachedFile, an error, nothing, or a count
NoRet == [kind |-> "none", entry |-> NoEntry, n |-> 0]
RetEntry(e) == [kind |-> "entry", entry |-> e, n |-> 0]
RetErr == [kind |-> "err", entry |-> NoEntry, n |-> 0]
RetVoid == [kind |-> "void", entry |-> NoEntry, n |-> 0]
RetCount(k) == [kind |-> "count", entry |-> NoEntry, n |-> k]
NoHist == [stat |-> "none", parsed |-> FALSE, before |-> NoEntry]

\* time.Time.After
After(t, u) == t > u

\* sync.RWMutex: RLock succeeds when no writer holds the lock,
\* Lock when nobody holds it.
CanRLock == mu.writer = 0
(* mutant: Lock does not wait for the readers *)
CanLockBesideReaders == mu.writer = 0
CanLock == mu.writer = 0 /\ mu.readers = {}
(* mutant: RUnlock leaves the reader registered *)
RUnlockKept(m, t) == m
\* RUnlock by reader t
RUnlock(m, t) == [m EXCEPT !.readers = @ \ {t}]

InitCache ==
    /\ files = [p \in Paths |-> NoEntry]
    /\ mu = [readers |-> {}, writer |-> 0]
    /\ disk = [p \in Paths |-> [exists |-> TRUE, mtime |-> 0, ver |-> 0]]
    /\ nextId = 1
    /\ pc = [t \in Threads |-> "idle"]
    /\ arg = [t \in Threads |-> ""]
    /\ cached = [t \in Threads |-> NoEntry]
    /\ exists = [t \in Threads |-> FALSE]
    /\ src = [t \in Threads |-> -1]
    /\ ret = [t \in Threads |-> NoRet]
    /\ hist = [t \in Threads |-> NoHist]

\* ---- the environment: the file on disk changes
\* A write changes the content; the modification time moves on by one tick or,
\* for a write within the same tick of the clock, stays.
ModifyFile(p) ==
    /\ disk[p].exists
    /\ disk[p].ver < MaxMods
    /\ \E m \in {disk[p].mtime, disk[p].mtime + 1} :
          disk' = [disk EXCEPT ![p] = [exists |-> TRUE, mtime |-> m, ver |-> disk[p].ver + 1]]
    /\ UNCHANGED <<files, mu, nextId, pc, arg, cached, exists, src, ret, hist>>
    /\ UNCHANGED nonCacheVars

DeleteFile(p) ==
    /\ disk[p].exists
    /\ disk' = [disk EXCEPT ![p].exists = FALSE]
    /\ UNCHANGED <<files, mu, nextId, pc, arg, cached, exists, src, ret, hist>>
    /\ UNCHANGED nonCacheVars

\* ---- GetOrParseFile, statement by statement
Return(t, v) ==
    /\ ret' = [ret EXCEPT ![t] = v]
    /\ pc' = [pc EXCEPT ![t] = "done"]

CallGetOrParseFile(t, p) ==
    /\ pc[t] = "idle"
    /\ pc' = [pc EXCEPT ![t] = "rlock"]
    /\ arg' = [arg EXCEPT ![t] = p]
    /\ ret' = [ret EXCEPT ![t] = NoRet]
    /\ hist' = [hist EXCEPT ![t] = NoHist]
    /\ cached' = [cached EXCEPT ![t] = NoEntry]
    /\ exists' = [exists EXCEPT ![t] = FALSE]
    /\ src' = [src EXCEPT ![t] = -1]
    /\ UNCHANGED <<files, mu, disk, nextId>>
    /\ UNCHANGED nonCacheVars

\* cache.mu.RLock()
GetRLock(t) ==
    /\ pc[t] = "rlock"
    /\ CanRLock
    /\ mu' = [mu EXCEPT !.readers = @ \cup {t}]
    /\ pc' = [pc EXCEPT ![t] = "lookup"]
    /\ UNCHANGED <<files, disk, nextId, arg, cached, exists, src, ret, hist>>
    /\ UNCHANGED nonCacheVars

\* cached, exists := cache.files[filePath]
GetLookup(t) ==
    /\ pc[t] = "lookup"
    /\ cached' = [cached EXCEPT ![t] = files[arg[t]]]
    /\ exists' = [exists EXCEPT ![t] = files[arg[t]] # NoEntry]
    /\ hist' = [hist EXCEPT ![t].before = files[arg[t]]]
    /\ pc' = [pc EXCEPT ![t] = "runlock"]
    /\ UNCHANGED <<files, mu, disk, nextId, arg, src, ret>>
    /\ UNCHANGED nonCacheVars

\* cache.mu.RUnlock()
GetRUnlock(t) ==
    /\ pc[t] = "runlock"
    /\ mu' = RUnlock(mu, t)
    /\ pc' = [pc EXCEPT ![t] = IF exists[t] THEN "stat" ELSE "read"]
    /\ UNCHANGED <<files, disk, nextId, arg, cached, exists, src, ret, hist>>
    /\ UNCHANGED nonCacheVars

\* (mutant) equal times count as stale: Before in place of !After
IsFreshBefore(d, c) == d.exists /\ After(c.modTime, d.mtime)

\* The staleness test of GetOrParseFile: the entry is returned when the stat
\* succeeds and the file's time is not after the recorded one.
IsFresh(d, c) == d.exists /\ ~After(d.mtime, c.modTime)

\* if exists { stat, err := os.Stat(filePath); if err == nil && !After { return cached } }
GetStat(t) ==
    /\ pc[t] = "stat"
    /\ LET d == disk[arg[t]] IN
       /\ hist' = [hist EXCEPT ![t].stat =
                      IF ~d.exists THEN "error"
                      ELSE IF After(d.mtime, cached[t].modTime) THEN "newer" ELSE "notnewer"]
       /\ IF IsFresh(d, cached[t])
          THEN Return(t, RetEntry(cached[t]))
          ELSE pc' = [pc EXCEPT ![t] = "read"] /\ UNCHANGED ret
    /\ UNCHANGED <<files, mu, disk, nextId, arg, cached, exists, src>>
    /\ UNCHANGED nonCacheVars

\* src, err := os.ReadFile(filePath)
GetRead(t) ==
    /\ pc[t] = "read"
    /\ IF disk[arg[t]].exists
       THEN /\ src' = [src EXCEPT ![t] = disk[arg[t]].ver]
            /\ pc' = [pc EXCEPT ![t] = "parse"]
            /\ UNCHANGED ret
       ELSE /\ Return(t, RetErr)
            /\ UNCHANGED src
    /\ UNCHANGED <<files, mu, disk, nextId, arg, cached, exists, hist>>
    /\ UNCHANGED nonCacheVars

\* file, err := parser.ParseFile(fset, filePath, src, ...): a tree, complete or
\* partial (a scanner.ErrorList is tolerated) ...
GetParse(t) ==
    /\ pc[t] = "parse"
    /\ pc' = [pc EXCEPT ![t] = "stat2"]
    /\ hist' = [hist EXCEPT ![t].parsed = TRUE]
    /\ UNCHANGED <<files, mu, disk, nextId, arg, cached, exists, src, ret>>
    /\ UNCHANGED nonCacheVars

(* mutant: a call that fails to parse drops the entry of the path *)
GetParseFailEvicting(t) ==
    /\ pc[t] = "parse"
    /\ Return(t, RetErr)
    /\ files' = [files EXCEPT ![arg[t]] = NoEntry]
    /\ UNCHANGED <<mu, disk, nextId, arg, cached, exists, src, hist>>
    /\ UNCHANGED nonCacheVars

\* ... or another error, or no tree at all: the call fails.
GetParseFail(t) ==
    /\ pc[t] = "parse"
    /\ Return(t, RetErr)
    /\ UNCHANGED <<files, mu, disk, nextId, arg, cached, exists, src, hist>>
    /\ UNCHANGED nonCacheVars

\* The modification time recorded in a new entry: that of the second stat.
RecordedTime(d) == d.mtime

\* stat, err := os.Stat(filePath); cached = &cachedFile{...}
GetStat2(t) ==
    /\ pc[t] = "stat2"
    /\ IF disk[arg[t]].exists
       THEN /\ nextId <= MaxParses
            /\ cached' = [cached EXCEPT ![t] =
                             [id |-> nextId, modTime |-> RecordedTime(disk[arg[t]]),
                              ver |-> src[t], filePath |-> arg[t]]]
            /\ nextId' = nextId + 1
            /\ pc' = [pc EXCEPT ![t] = "lock"]
            /\ UNCHANGED ret
       ELSE /\ Return(t, RetErr)
            /\ UNCHANGED <<cached, nextId>>
    /\ UNCHANGED <<files, mu, disk, arg, exists, src, hist>>
    /\ UNCHANGED nonCacheVars

\* cache.mu.Lock()
GetLock(t) ==
    /\ pc[t] = "lock"
    /\ CanLock
    /\ mu' = [mu EXCEPT !.writer = t]
    /\ pc' = [pc EXCEPT ![t] = "store"]
    /\ UNCHANGED <<files, disk, nextId, arg, cached, exists, src, ret, hist>>
    /\ UNCHANGED nonCacheVars

(* mutant: an entry is added beside the one the path has *)
MapStoreBeside(m, key, value) ==
    LET free == {q \in Paths \ {key} : m[q] = NoEntry}
    IN IF m[key] # NoEntry /\ free # {}
       THEN [m EXCEPT ![CHOOSE q \in free : TRUE] = value]
       ELSE [m EXCEPT ![key] = value]

\* m[key] = value on a Go map
MapStore(m, key, value) == [m EXCEPT ![key] = value]

\* cache.files[filePath] = cached
GetStore(t) ==
    /\ pc[t] = "store"
    /\ files' = MapStore(files, arg[t], cached[t])
    /\ pc' = [pc EXCEPT ![t] = "unlock"]
    /\ UNCHANGED <<mu, disk, nextId, arg, cached, exists, src, ret, hist>>
    /\ UNCHANGED nonCacheVars

\* cache.mu.Unlock(); return cached, nil
GetUnlock(t) ==
    /\ pc[t] = "unlock"
    /\ mu' = [mu EXCEPT !.writer = 0]
    /\ Return(t, RetEntry(cached[t]))
    /\ UNCHANGED <<files, disk, nextId, arg, cached, exists, src, hist>>
    /\ UNCHANGED nonCacheVars

\* the caller takes the result; the call's frame is gone and the thread is
\* free for its next call
Finish(t) ==
    /\ pc[t] = "done"
    /\ pc' = [pc EXCEPT ![t] = "idle"]
    /\ arg' = [arg EXCEPT ![t] = ""]
    /\ cached' = [cached EXCEPT ![t] = NoEntry]
    /\ exists' = [exists EXCEPT ![t] = FALSE]
    /\ src' = [src EXCEPT ![t] = -1]
    /\ ret' = [ret EXCEPT ![t] = NoRet]
    /\ hist' = [hist EXCEPT ![t] = NoHist]
    /\ UNCHANGED <<files, mu, disk, nextId>>
    /\ UNCHANGED nonCacheVars

\* ---- ClearCache, RemoveFile, GetCacheStats: Lock / RLock, one access, deferred unlock
CallOp(t, op, p) ==
    /\ pc[t] = "idle"
    /\ pc' = [pc EXCEPT ![t] = op]
    /\ arg' = [arg EXCEPT ![t] = p]
    /\ ret' = [ret EXCEPT ![t] = NoRet]
    /\ hist' = [hist EXCEPT ![t] = NoHist]
    /\ cached' = [cached EXCEPT ![t] = NoEntry]
    /\ exists' = [exists EXCEPT ![t] = FALSE]
    /\ src' = [src EXCEPT ![t] = -1]
    /\ UNCHANGED <<files, mu, disk, nextId>>
    /\ UNCHANGED nonCacheVars

CallClearCache(t) == CallOp(t, "clear_lock", "")
CallRemoveFile(t, p) == CallOp(t, "remove_lock", p)
CallGetCacheStats(t) == CallOp(t, "stats_rlock", "")

ClearLock(t) ==
    /\ pc[t] = "clear_lock"
    /\ CanLock
    /\ mu' = [mu EXCEPT !.writer = t]
    /\ pc' = [pc EXCEPT ![t] = "clear"]
    /\ UNCHANGED <<files, disk, nextId, arg, cached, exists, src, ret, hist>>
    /\ UNCHANGED nonCacheVars

\* cache.files = make(map[string]*cachedFile)
ClearCache(t) ==
    /\ pc[t] = "clear"
    /\ files' = [p \in Paths |-> NoEntry]
    /\ pc' = [pc EXCEPT ![t] = "wunlock"]
    /\ UNCHANGED <<mu, disk, nextId, arg, cached, exists, src, ret, hist>>
    /\ UNCHANGED nonCacheVars

RemoveLock(t) ==
    /\ pc[t] = "remove_lock"
    /\ CanLock
    /\ mu' = [mu EXCEPT !.writer = t]
    /\ pc' = [pc EXCEPT ![t] = "remove"]
    /\ UNCHANGED <<files, disk, nextId, arg, cached, exists, src, ret, hist>>
    /\ UNCHANGED nonCacheVars

(* mutant: every key is deleted *)
MapDeleteAll(m, key) == [p \in Paths |-> NoEntry]

\* delete(m, key) on a Go map
MapDelete(m, key) == [m EXCEPT ![key] = NoEntry]

\* delete(cache.files, filePath)
RemoveFile(t) ==
    /\ pc[t] = "remove"
    /\ files' = MapDelete(files, arg[t])
    /\ pc' = [pc EXCEPT ![t] = "wunlock"]
    /\ UNCHANGED <<mu, disk, nextId, arg, cached, exists, src, ret, hist>>
    /\ UNCHANGED nonCacheVars

\* defer cache.mu.Unlock()
DeferUnlock(t) ==
    /\ pc[t] = "wunlock"
    /\ mu' = [mu EXCEPT !.writer = 0]
    /\ Return(t, RetVoid)
    /\ UNCHANGED <<files, disk, nextId, arg, cached, exists, src, hist>>
    /\ UNCHANGED nonCacheVars

StatsRLock(t) ==
    /\ pc[t] = "stats_rlock"
    /\ CanRLock
    /\ mu' = [mu EXCEPT !.readers = @ \cup {t}]
    /\ pc' = [pc EXCEPT ![t] = "stats"]
    /\ UNCHANGED <<files, disk, nextId, arg, cached, exists, src, ret, hist>>
    /\ UNCHANGED nonCacheVars

\* "cached_files": len(cache.files); defer cache.mu.RUnlock()
GetCacheStats(t) ==
    /\ pc[t] = "stats"
    /\ mu' = RUnlock(mu, t)
    /\ Return(t, RetCount(Cardinality({p \in Paths : files[p] # NoEntry})))
    /\ UNCHANGED <<files, disk, nextId, arg, cached, exists, src, hist>>
    /\ UNCHANGED nonCacheVars

\* =================================================================
\*  PART 2.  createGoplsPosition  (gopls_utils.go)
\* =================================================================
\* Text is a sequence of bytes.  The bytes the model draws from:
\* 'P' (a letter), '1' (a digit), '_', ' ' and the line feed.
LF == 10
LineBytes == {80, 49, 95, 32}
ContentBytes == LineBytes \cup {LF}

\* longest file content, longest symbol name
MaxLen == 4
MaxTok == 2

Least(S) == CHOOSE x \in S : \A y \in S : x <= y

RECURSIVE SeqsUpTo(_, _)
SeqsUpTo(S, n) ==
    IF n = 0 THEN {<<>>}
    ELSE LET shorter == SeqsUpTo(S, n - 1)
         IN shorter \cup {Append(q, c) : q \in {r \in shorter : Len(r) = n - 1}, c \in S}

\* the process runs in /ws; a.go exists there, gone.go does not
PosPaths == {"a.go", "gone.go"}
\* filepath.Abs, the working directory being /ws
Abs(path) == CASE path = "a.go" -> "/ws/a.go"
               [] path = "gone.go" -> "/ws/gone.go"
               [] OTHER -> path
\* the files on disk: a.go and b.go in the workspace /ws, a copy of a.go in
\* its subdirectory ..gen, and one outside the workspace
ExistingFiles == {"/ws/a.go", "/ws/b.go", "/out/a.go", "/ws/..gen/a.go"}
\* os.Stat(path) finds the file
FileExists(path) == Abs(path) \in ExistingFiles

isIdentifierChar(r) ==
    \/ (r >= 97 /\ r <= 122)
    \/ (r >= 65 /\ r <= 90)
    \/ (r >= 48 /\ r <= 57)
    \/ r = 95

\* (mutant) only the character before the symbol is examined
isWordBoundaryPrevOnly(line, index, symbol) ==
    ~(index > 0 /\ isIdentifierChar(line[index]))

\* index is 0-based, as in the source: line[index] is line[index + 1] here
isWordBoundary(line, index, symbol) ==
    LET endIndex == index + Len(symbol) IN
    /\ ~(index > 0 /\ isIdentifierChar(line[index]))
    /\ ~(endIndex < Len(line) /\ isIdentifierChar(line[endIndex + 1]))

\* strings.Split(content, "\n")
RECURSIVE Split(_)
Split(content) ==
    IF \A k \in 1..Len(content) : content[k] # LF
    THEN <<content>>
    ELSE LET k == CHOOSE j \in 1..Len(content) :
                     content[j] = LF /\ \A h \in 1..(j - 1) : content[h] # LF
         IN <<SubSeq(content, 1, k - 1)>> \o Split(SubSeq(content, k + 1, Len(content)))

\* (mutant) strings.Index: the first plain substring match is taken
RECURSIVE scanFromIndex(_, _, _)
scanFromIndex(targetLine, symbolName, i) ==
    IF i > Len(targetLine) - Len(symbolName) THEN -1
    ELSE IF SubSeq(targetLine, i + 1, i + Len(symbolName)) = symbolName
         THEN i
         ELSE scanFromIndex(targetLine, symbolName, i + 1)

\* for i := 0; i <= len(targetLine)-len(symbolName); i++ { ... break }
RECURSIVE scanFrom(_, _, _)
scanFrom(targetLine, symbolName, i) ==
    IF i > Len(targetLine) - Len(symbolName) THEN -1
    ELSE IF SubSeq(targetLine, i + 1, i + Len(symbolName)) = symbolName
            /\ isWordBoundary(targetLine, i, symbolName)
         THEN i
         ELSE scanFrom(targetLine, symbolName, i + 1)

PosErr(e) == [state |-> "returned", err |-> e, position |-> <<>>]
PosOk(p) == [state |-> "returned", err |-> "", position |-> p]

findSymbolColumnPosition(readable, content, lineNumber, symbolName) ==
    IF ~readable THEN [err |-> "failed to read file", col |-> 0]
    ELSE LET lines == Split(content) IN
         IF lineNumber > Len(lines) THEN [err |-> "exceeds file length", col |-> 0]
         ELSE LET symbolIndex == scanFrom(lines[lineNumber], symbolName, 0) IN
              IF symbolIndex = -1
              THEN [err |-> "not found at a word boundary", col |-> 0]
              ELSE [err |-> "", col |-> symbolIndex + 1]

\* fmt.Sprintf("%s:%d:%d", absPath, lineNumber, columnPos)
FormatPosition(absPath, lineNumber, columnPos) == <<absPath, lineNumber, columnPos>>

(* mutant: the file is not looked up before it is read *)
createGoplsPositionNoStat(filePath, content, lineNumber, symbolName) ==
    IF lineNumber <= 0 THEN PosErr("invalid line number")
    ELSE IF symbolName = <<>> THEN PosErr("symbol name cannot be empty")
    ELSE LET found == findSymbolColumnPosition(TRUE, content, lineNumber, symbolName)
         IN IF found.err # "" THEN PosErr(found.err)
            ELSE PosOk(FormatPosition(Abs(filePath), lineNumber, found.col))

createGoplsPosition(filePath, content, lineNumber, symbolName) ==
    IF lineNumber <= 0 THEN PosErr("invalid line number")
    ELSE IF symbolName = <<>> THEN PosErr("symbol name cannot be empty")
    ELSE IF ~FileExists(filePath) THEN PosErr("file does not exist")
    ELSE LET absPath == Abs(filePath)
             found == findSymbolColumnPosition(TRUE, content, lineNumber, symbolName)
         IN IF found.err # "" THEN PosErr(found.err)
            ELSE PosOk(FormatPosition(absPath, lineNumber, found.col))

InitPos ==
    /\ posFile \in PosPaths
    /\ posLine \in 0..2
    /\ posSymbol \in SeqsUpTo(LineBytes, MaxTok)
    /\ posContent \in SeqsUpTo(ContentBytes, MaxLen)
    /\ posResult = [state |-> "called", err |-> "", position |-> <<>>]

\* the position resolver at rest, for the specifications of the other parts
IdlePos ==
    /\ posFile = "a.go"
    /\ posLine = 0
    /\ posSymbol = <<>>
    /\ posContent = <<>>
    /\ posResult = [state |-> "called", err |-> "", position |-> <<>>]

CreateGoplsPosition ==
    /\ posResult.state = "called"
    /\ posResult' = createGoplsPosition(posFile, posContent, posLine, posSymbol)
    /\ UNCHANGED <<posFile, posLine, posSymbol, posContent>>
    /\ UNCHANGED nonPosVars

\* =================================================================
\*  PART 3.  executeGoplsCommand and Rename
\* =================================================================
\* The output of the gopls subprocess is a sequence of pieces: white space,
\* other text, a location line "path:line:startCol-endCol", or a line that is
\* not a location.
Space == [kind |-> "space", path |-> "", line |-> 0]
Text == [kind |-> "text", path |-> "", line |-> 0]
Junk == [kind |-> "junk", path |-> "", line |-> 0]
Loc(path, line) == [kind |-> "loc", path |-> path, line |-> line]

\* What the subprocess does with a command: its exit and its combined output
\* (nothing, white space only, or text).
GoplsOutputs == {<<>>, <<Space>>, <<Text>>}
GoplsOutcomes == [exit : {"ok", "fail"}, output : GoplsOutputs]

\* strings.TrimSpace
RECURSIVE TrimLeft(_)
TrimLeft(b) == IF b # <<>> /\ Head(b).kind = "space" THEN TrimLeft(Tail(b)) ELSE b
RECURSIVE TrimRight(_)
TrimRight(b) ==
    IF b # <<>> /\ b[Len(b)].kind = "space" THEN TrimRight(SubSeq(b, 1, Len(b) - 1)) ELSE b
TrimSpace(b) == TrimRight(TrimLeft(b))

(* mutant: the output is returned as it came *)
executeGoplsCommandUntrimmed(args, outcome) ==
    IF Len(args) = 0 THEN [out |-> <<>>, err |-> "no arguments provided to gopls command"]
    ELSE IF outcome.exit = "fail" THEN [out |-> <<>>, err |-> "gopls command failed"]
    ELSE [out |-> outcome.output, err |-> ""]

\* executeGoplsCommand(args...), the subprocess answering `outcome`
executeGoplsCommand(args, outcome) ==
    IF Len(args) = 0 THEN [out |-> <<>>, err |-> "no arguments provided to gopls command"]
    ELSE IF outcome.exit = "fail" THEN [out |-> <<>>, err |-> "gopls command failed"]
    ELSE [out |-> TrimSpace(outcome.output), err |-> ""]

\* the external tool has not run
NoOutcome == [exit |-> "none", output |-> <<>>]

RenPaths == {"", "a.go", "gone.go"}
RenNames == {<<>>, <<80>>, <<80, 80>>}
RenContents == {<<80, 80, 32, 80>>, <<80, 80>>}
NoPosition == <<>>

InitRename ==
    /\ renArgs \in [filePath : RenPaths, lineNumber : -1..2,
                     symbolName : RenNames, newName : RenNames]
    /\ renContent \in RenContents
    /\ renPc = "called"
    /\ renPosition = NoPosition
    /\ renResult = [out |-> <<>>, err |-> ""]
    /\ renCalls = [position |-> 0, gopls |-> 0]
    /\ renWrites = 0
    /\ renGopls = NoOutcome

IdleRename ==
    /\ renArgs = [filePath |-> "", lineNumber |-> 0, symbolName |-> <<>>, newName |-> <<>>]
    /\ renContent = <<>>
    /\ renPc = "called"
    /\ renPosition = NoPosition
    /\ renResult = [out |-> <<>>, err |-> ""]
    /\ renCalls = [position |-> 0, gopls |-> 0]
    /\ renWrites = 0
    /\ renGopls = NoOutcome

RenameReturn(out, err) ==
    /\ renResult' = [out |-> out, err |-> err]
    /\ renPc' = "done"

\* the message of the early return: fmt.Sprintf("Symbol '%s' already has the desired name", ...)
AlreadyNamed(symbolName) == <<"Symbol '", symbolName, "' already has the desired name">>
\* fmt.Sprintf("Symbol '%s' renamed to '%s'", symbolName, newName)
RenamedTo(symbolName, newName) == <<"Symbol '", symbolName, "' renamed to '", newName, "'">>

\* if symbolName == newName
(* mutant: the names are never found equal *)
SameNameNever(symbolName, newName) == FALSE
SameName(symbolName, newName) == symbolName = newName

\* Rename, lines 94-112: the argument checks and the early return
RenameValidate ==
    /\ renPc = "called"
    /\ IF renArgs.filePath = "" THEN RenameReturn(<<>>, "file path cannot be empty")
       ELSE IF renArgs.lineNumber <= 0 THEN RenameReturn(<<>>, "line number must be positive")
       ELSE IF renArgs.symbolName = <<>> THEN RenameReturn(<<>>, "symbol name cannot be empty")
       ELSE IF renArgs.newName = <<>> THEN RenameReturn(<<>>, "new name cannot be empty")
       ELSE IF SameName(renArgs.symbolName, renArgs.newName)
            THEN RenameReturn(AlreadyNamed(renArgs.symbolName), "")
       ELSE renPc' = "position" /\ UNCHANGED renResult
    /\ UNCHANGED <<renArgs, renContent, renPosition, renCalls, renWrites, renGopls>>
    /\ UNCHANGED nonRenVars

\* position, err := createGoplsPosition(filePath, lineNumber, symbolName)
RenamePosition ==
    /\ renPc = "position"
    /\ renCalls' = [renCalls EXCEPT !.position = @ + 1]
    /\ LET r == createGoplsPosition(renArgs.filePath, renContent,
                                     renArgs.lineNumber, renArgs.symbolName)
       IN IF r.err # ""
          THEN RenameReturn(<<>>, r.err) /\ UNCHANGED renPosition
          ELSE renPosition' = r.position /\ renPc' = "gopls" /\ UNCHANGED renResult
    /\ UNCHANGED <<renArgs, renContent, renWrites, renGopls>>
    /\ UNCHANGED nonRenVars

\* output, err := executeGoplsCommand("rename", "-w", position, newName)
\* A rename that exits successfully has rewritten the sources (-w).
RenameGopls ==
    /\ renPc = "gopls"
    /\ renCalls' = [renCalls EXCEPT !.gopls = @ + 1]
    /\ \E outcome \in GoplsOutcomes :
          LET r == executeGoplsCommand(<<"rename", "-w", renPosition, renArgs.newName>>, outcome)
          IN /\ renWrites' = IF outcome.exit = "ok" THEN renWrites + 1 ELSE renWrites
             /\ renGopls' = outcome
             /\ IF r.err # "" THEN RenameReturn(<<>>, "failed to rename symbol")
                ELSE IF r.out = <<>>
                     THEN RenameReturn(RenamedTo(renArgs.symbolName, renArgs.newName), "")
                     ELSE RenameReturn(r.out, "")
    /\ UNCHANGED <<renArgs, renContent, renPosition>>
    /\ UNCHANGED nonRenVars

\* =================================================================
\*  PART 4.  Inspect and the formatters
\* =================================================================
\* most declarations a file holds
MaxDecls == 2

\* Identifiers are byte strings: P, Q, T, I are exported names, p is not.
NameP == <<80>>
NameLowerP == <<112>>
NameQ == <<81>>
NameT == <<84>>
NameI == <<73>>
NameS == <<83>>
NameZ == <<90>>
NameX == <<88>>
NoName == <<>>

\* ast.IsExported: the name begins with an upper-case letter
IsExported(name) == name # <<>> /\ name[1] >= 65 /\ name[1] <= 90

\* The declarations a file is built from.  Each takes two lines of the file;
\* `text` is those lines, `last` the offset of the node's last line.  The
\* output lines of the formatters are kept without the blank lines between.
Templates == {
    [kind |-> "func", names |-> <<NameP>>, recv |-> NoName, iface |-> FALSE, doc |-> TRUE,
     last |-> 1, text |-> <<<<102, 117, 110, 99, 32, 80, 40, 41, 32, 123>>, <<125>>>>],
    [kind |-> "func", names |-> <<NameLowerP>>, recv |-> NoName, iface |-> FALSE, doc |-> FALSE,
     last |-> 1, text |-> <<<<102, 117, 110, 99, 32, 112, 40, 41, 32, 123>>, <<125>>>>],
    \* "func" and the name on separate lines
    [kind |-> "func", names |-> <<NameQ>>, recv |-> NoName, iface |-> FALSE, doc |-> FALSE,
     last |-> 1, text |-> <<<<102, 117, 110, 99>>, <<81, 40, 41, 32, 123, 125>>>>],
    [kind |-> "func", names |-> <<NameQ>>, recv |-> NameT, iface |-> FALSE, doc |-> FALSE,
     last |-> 1, text |-> <<<<102, 117, 110, 99, 32, 40, 116, 32, 84, 41, 32, 81, 40, 41, 32, 123>>, <<125>>>>],
    [kind |-> "type", names |-> <<NameT>>, recv |-> NoName, iface |-> FALSE, doc |-> TRUE,
     last |-> 1, text |-> <<<<116, 121, 112, 101, 32, 84, 32, 115, 116, 114, 117, 99, 116, 32, 123>>, <<125>>>>],
    [kind |-> "type", names |-> <<NameI>>, recv |-> NoName, iface |-> TRUE, doc |-> FALSE,
     last |-> 1, text |-> <<<<116, 121, 112, 101, 32, 73, 32, 105, 110, 116, 101, 114, 102, 97, 99, 101, 32, 123>>, <<125>>>>],
    [kind |-> "value", names |-> <<NameLowerP>>, recv |-> NoName, iface |-> FALSE, doc |-> TRUE,
     last |-> 0, text |-> <<<<118, 97, 114, 32, 112, 32, 61, 32, 49>>, <<>> >>],
    [kind |-> "value", names |-> <<NameP, NameLowerP>>, recv |-> NoName, iface |-> FALSE, doc |-> FALSE,
     last |-> 0, text |-> <<<<118, 97, 114, 32, 80, 44, 32, 112, 32, 61, 32, 49, 44, 32, 50>>, <<>> >>]
    }

\* b.go: func Z (lines 2-3) and type S struct (lines 4-5)
BTemplates == <<
    [kind |-> "func", names |-> <<NameZ>>, recv |-> NoName, iface |-> FALSE, doc |-> FALSE,
     last |-> 1, text |-> <<<<102, 117, 110, 99, 32, 90, 40, 41, 32, 123>>, <<125>>>>],
    [kind |-> "type", names |-> <<NameS>>, recv |-> NoName, iface |-> FALSE, doc |-> FALSE,
     last |-> 1, text |-> <<<<116, 121, 112, 101, 32, 83, 32, 115, 116, 114, 117, 99, 116, 32, 123>>, <<125>>>> ] >>

\* A node of a function body's syntax tree.  The nodes of a body are listed in
\* the order ast.Inspect visits them (a node before its children, children in
\* source order); `parent` is the index of the enclosing node, 0 for the body
\* block itself, and `role` says whether the node is the Body of its parent.
Node(kind, start, end, parent, role) ==
    [kind |-> kind, start |-> start, end |-> end, parent |-> parent, role |-> role]

\* the line (0 or 1 past the start) on which the body's opening brace stands
BraceLine(text) == IF \E k \in 1..Len(text[1]) : text[1][k] = 123 THEN 0 ELSE 1

\* the i-th declaration of a file: lines 2i (to 2i+1); line 1 is the package clause
DeclAt(templates, i) ==
    [kind |-> templates[i].kind, names |-> templates[i].names, recv |-> templates[i].recv,
     iface |-> templates[i].iface, doc |-> templates[i].doc,
     start |-> 2 * i, end |-> 2 * i + templates[i].last,
     body |-> IF templates[i].kind = "func"
              THEN <<Node("block", 2 * i + BraceLine(templates[i].text), 2 * i + templates[i].last, 0, "body")>>
              ELSE <<>>]

DeclsOf(templates) == [i \in 1..Len(templates) |-> DeclAt(templates, i)]

\* the bytes of the file: the package clause, then the lines of each declaration
RECURSIVE JoinLines(_)
JoinLines(lines) ==
    IF Len(lines) = 0 THEN <<>>
    ELSE IF Len(lines) = 1 THEN lines[1]
    ELSE lines[1] \o <<LF>> \o JoinLines(Tail(lines))

RECURSIVE TemplateLines(_)
TemplateLines(templates) ==
    IF templates = <<>> THEN <<>>
    ELSE Head(templates).text \o TemplateLines(Tail(templates))

SourceOf(templates) == JoinLines(<<<<112, 97, 99, 107, 97, 103, 101, 32, 109>>>> \o TemplateLines(templates))

\* ---- the files as the parser and the cache see them
MainFiles == {"/ws/a.go", "/out/a.go", "/ws/..gen/a.go"}
\* globalFileCache.GetOrParseFile(path) yields a tree
CanParse(path) == (path \in MainFiles /\ insParse # "notree") \/ path = "/ws/b.go"
TreeOf(path) == IF path \in MainFiles THEN DeclsOf(insDecls) ELSE DeclsOf(BTemplates)
SourceBytes(path) == IF path \in MainFiles THEN SourceOf(insDecls) ELSE SourceOf(BTemplates)

\* filepath.Rel(base, target) for the workspace and the files of the model,
\* as bytes: a.go, b.go, sub/c.go, ..gen/a.go and ../out/a.go
Rel(base, target) ==
    CASE <<base, target>> = <<"/ws", "/ws/a.go">> -> <<97, 46, 103, 111>>
      [] <<base, target>> = <<"/ws", "/ws/b.go">> -> <<98, 46, 103, 111>>
      [] <<base, target>> = <<"/ws", "/ws/sub/c.go">> -> <<115, 117, 98, 47, 99, 46, 103, 111>>
      [] <<base, target>> = <<"/ws", "/ws/..gen/a.go">> -> <<46, 46, 103, 101, 110, 47, 97, 46, 103, 111>>
      [] <<base, target>> = <<"/ws", "/out/a.go">> -> <<46, 46, 47, 111, 117, 116, 47, 97, 46, 103, 111>>
      [] OTHER -> <<46>>

\* strings.HasPrefix
HasPrefix(s, prefix) == Len(s) >= Len(prefix) /\ SubSeq(s, 1, Len(prefix)) = prefix

\* isFileInWorkspace: filepath.Rel(workspaceDir, filePath) does not begin with ".."
isFileInWorkspace(filePath, workspaceDir) ==
    /\ workspaceDir # ""
    /\ ~HasPrefix(Rel(workspaceDir, filePath), <<46, 46>>)

\* ---- the output: a sequence of lines, each [tag, a, b, names, path, ind]
Item(tag, a, b, names, path) ==
    [tag |-> tag, a |-> a, b |-> b, names |-> names, path |-> path, ind |-> 0]
Msg(tag) == Item(tag, 0, 0, <<>>, "")
\* what a formatter did: the lines written and the gopls commands run
Res(out, calls) == [out |-> out, calls |-> calls]
Cat(r, q) == [out |-> r.out \o q.out, calls |-> r.calls \o q.calls]
Nothing == Res(<<>>, <<>>)

\* fmt.Fprintf(b, "  %s\n", line) for each non-empty line
Indent(items) == [k \in 1..Len(items) |-> [items[k] EXCEPT !.ind = @ + 1]]

\* "Lines: %d-%d" or "Lines: %d"
LinesItem(start, end) ==
    IF end > start THEN Item("Lines", start, end, <<>>, "") ELSE Item("Lines", start, 0, <<>>, "")
DocItems(d) == IF d.doc THEN <<Msg("Docstring")>> ELSE <<>>
\* "Code:" and the raw source lines of the declaration, which spell its names
CodeItem(d) == Item("Code", 0, 0, d.names, "")

\* ---- the order of a range over a map
\* Keys carry a rank; a range visits them in rising or in falling rank.  The
\* answers below give a map at most two keys, so these are all its orders.
FileRank(path) == CASE path = "/ws/a.go" -> 1 [] path = "/ws/b.go" -> 2 [] OTHER -> 3
Key(path, line, name) ==
    [path |-> path, line |-> line, name |-> name, rank |-> 100 * FileRank(path) + line]

RECURSIVE Rising(_)
Rising(S) ==
    IF S = {} THEN <<>>
    ELSE LET k == CHOOSE x \in S : \A y \in S : x.rank <= y.rank
         IN <<k>> \o Rising(S \ {k})

Reverse(q) == [k \in 1..Len(q) |-> q[Len(q) + 1 - k]]
(* mutant: a range in falling order stops before the first key *)
MapRangeCut(S, falling) == IF falling THEN <<>> ELSE Rising(S)
MapRange(S, falling) == IF falling THEN Reverse(Rising(S)) ELSE Rising(S)
Orders == [functionScopes : BOOLEAN, packageFiles : BOOLEAN, implementers : BOOLEAN]

\* ---- determineScope: the function holding the line, or the file
FuncsHolding(decls, line) ==
    {i \in 1..Len(decls) : decls[i].kind = "func" /\ line >= decls[i].start /\ line <= decls[i].end}

determineScope(filePath, lineNumber) ==
    IF ~CanParse(filePath) THEN [err |-> TRUE, scope |-> Key(filePath, 0, NoName)]
    ELSE LET decls == TreeOf(filePath)
             holding == FuncsHolding(decls, lineNumber)
         IN IF holding = {} THEN [err |-> FALSE, scope |-> Key(filePath, 0, NoName)]
            ELSE LET i == Least(holding)
                 IN [err |-> FALSE, scope |-> Key(filePath, decls[i].start, decls[i].names[1])]

\* the two maps formatReferences fills from the location lines
WellFormed(output) == {k \in 1..Len(output) : output[k].kind = "loc"}
ScopesOf(output) == {determineScope(output[k].path, output[k].line) : k \in WellFormed(output)}
functionScopesOf(scopes) == {sc.scope : sc \in {x \in scopes : ~x.err /\ x.scope.line # 0}}
(* mutant: a location in a file that does not parse is dropped *)
packageFilesOfParsed(scopes) ==
    {Key(sc.scope.path, 0, NoName) : sc \in {x \in scopes : ~x.err /\ x.scope.line = 0}}
packageFilesOf(scopes) ==
    {Key(sc.scope.path, 0, NoName) : sc \in {x \in scopes : x.err \/ x.scope.line = 0}}

\* ---- the scope hierarchy of a line
Constructs == {"if", "for", "range", "switch", "type-switch", "select"}
StmtKinds == Constructs \cup {"block", "other"}

Frame(kind, name, recv, start, end) ==
    [kind |-> kind, name |-> name, recv |-> recv, start |-> start, end |-> end]

(* mutant: only the start of the node is compared with the target line *)
HoldsLineFromStart(n, targetLine) == targetLine >= n.start

\* the negation of `targetLine < start || targetLine > end`
HoldsLine(n, targetLine) == ~(targetLine < n.start \/ targetLine > n.end)

\* ast.Inspect reaches a node when the callback returned true for each of its
\* ancestors, that is, when each of them holds the target line
RECURSIVE Reached(_, _, _)
Reached(nodes, i, targetLine) ==
    \/ nodes[i].parent = 0
    \/ LET p == nodes[i].parent
       IN Reached(nodes, p, targetLine) /\ HoldsLine(nodes[p], targetLine)

\* the nodes ast.Inspect(parent, ...) visits: parent and all below it
RECURSIVE InSubtree(_, _, _)
InSubtree(nodes, i, root) ==
    \/ i = root
    \/ nodes[i].parent # 0 /\ InSubtree(nodes, nodes[i].parent, root)

\* isPartOfConstruct(block, parent): some node n under `parent` has the block
\* as its Body (Else for an if), or is a clause with the block among its
\* statements.  A body holds no function literal, and FuncDecl is above it.
isPartOfConstruct(nodes, block, parent) ==
    \E n \in 1..Len(nodes) :
        /\ InSubtree(nodes, n, parent)
        /\ nodes[block].parent = n
        /\ \/ nodes[n].kind \in Constructs /\ nodes[block].role \in {"body", "else"}
           \/ nodes[n].kind \in {"case", "comm"}

\* the callback of findBlockScopesAtLine adds a frame for node i
AddsFrame(nodes, i, targetLine) ==
    /\ Reached(nodes, i, targetLine)
    /\ HoldsLine(nodes[i], targetLine)
    /\ \/ nodes[i].kind \in Constructs
       \/ nodes[i].kind = "block" /\ ~isPartOfConstruct(nodes, i, i)

RECURSIVE BlockFramesFrom(_, _, _)
BlockFramesFrom(nodes, i, targetLine) ==
    IF i > Len(nodes) THEN <<>>
    ELSE (IF AddsFrame(nodes, i, targetLine)
          THEN <<Frame(nodes[i].kind, NoName, NoName, nodes[i].start, nodes[i].end)>>
          ELSE <<>>) \o BlockFramesFrom(nodes, i + 1, targetLine)

findBlockScopesAtLine(nodes, targetLine) == BlockFramesFrom(nodes, 1, targetLine)

\* the first loop of buildScopeHierarchyAtLine: top-level types holding the line
RECURSIVE TypeFrames(_, _)
TypeFrames(decls, targetLine) ==
    IF decls = <<>> THEN <<>>
    ELSE LET d == Head(decls)
         IN (IF d.kind = "type" /\ targetLine >= d.start /\ targetLine <= d.end
             THEN <<Frame("type", d.names[1], NoName, d.start, d.end)>>
             ELSE <<>>) \o TypeFrames(Tail(decls), targetLine)

\* the second loop: functions and methods holding the line, each followed by
\* the block scopes of its body
RECURSIVE FuncFrames(_, _)
FuncFrames(decls, targetLine) ==
    IF decls = <<>> THEN <<>>
    ELSE LET d == Head(decls)
         IN (IF d.kind = "func" /\ targetLine >= d.start /\ targetLine <= d.end
             THEN <<Frame(IF d.recv # NoName THEN "method" ELSE "function",
                          d.names[1], d.recv, d.start, d.end)>>
                  \o (IF d.body # <<>> THEN findBlockScopesAtLine(d.body, targetLine) ELSE <<>>)
             ELSE <<>>) \o FuncFrames(Tail(decls), targetLine)

\* the package is named m
PackageFrame == Frame("package", <<109>>, NoName, 0, 0)

buildScopeHierarchyAtLine(decls, targetLine) ==
    <<PackageFrame>> \o TypeFrames(decls, targetLine) \o FuncFrames(decls, targetLine)

\* ---- the formatters
\* A formatter yields Res(lines written, gopls commands run).  `ord` holds, for
\* each map that is ranged over, the order this run visits it in.
RECURSIVE FunctionScopeLines(_, _)
RECURSIVE ImplementerLines(_, _)
RECURSIVE MethodLines(_, _, _, _)

(* mutant: every type is taken for an interface *)
IsInterfaceTypeAny(ts) == TRUE
\* typeSpec.Type.(*ast.InterfaceType), whose Methods the parser always sets
IsInterfaceType(ts) == ts.iface

\* what formatFunction writes before its optional sections: Lines, Docstring, Code
FunctionLines(fn) == <<LinesItem(fn.start, fn.end)>> \o DocItems(fn) \o <<CodeItem(fn)>>
\* the same of formatType
TypeLines(ts) == <<LinesItem(ts.start, ts.end)>> \o DocItems(ts) \o <<CodeItem(ts)>>

\* formatFunction as the other formatters call it, to show a function inside
\* their own section.  They pass false for both flags; a section that would be
\* written all the same is shown by its header and its gopls command.
(* mutant: a function shown inside another section gets its own References *)
formatFunctionNestedWithSections(fn, filename, includeReferences, includeCallHierarchy, workspaceDir) ==
    Cat(Res(FunctionLines(fn), <<>>), Res(<<Msg("References:")>>, <<"references">>))

formatFunctionNested(fn, filename, includeReferences, includeCallHierarchy, workspaceDir) ==
    LET isInWorkspace == isFileInWorkspace(filename, workspaceDir)
        refs == IF includeReferences /\ isInWorkspace
                THEN Res(<<Msg("References:")>>, <<"references">>) ELSE Nothing
        hier == IF includeCallHierarchy /\ isInWorkspace
                THEN Res(<<Msg("Call Hierarchy:")>>, <<"call_hierarchy">>) ELSE Nothing
    IN Cat(Cat(Res(FunctionLines(fn), <<>>), refs), hier)

\* formatType as formatImplementers calls it (all flags false, no workspace)
formatTypeNested(ts, filename, includeReferences, includeImplementers, includeMethods, workspaceDir) ==
    LET isInWorkspace == isFileInWorkspace(filename, workspaceDir)
        impls == IF IsInterfaceType(ts) /\ includeImplementers /\ isInWorkspace
                 THEN Res(<<Msg("Implementers:")>>, <<"implementation">>) ELSE Nothing
        methods == IF includeMethods /\ CanParse(filename)
                   THEN MethodLines(TreeOf(filename), filename, ts.names[1], workspaceDir) ELSE Nothing
        refs == IF includeReferences /\ isInWorkspace
                THEN Res(<<Msg("References:")>>, <<"references">>) ELSE Nothing
    IN Cat(Cat(Cat(Res(TypeLines(ts), <<>>), impls), methods), refs)

\* the methods of the file whose receiver is the type, each formatted bare
MethodLines(decls, filename, typeName, workspaceDir) ==
    IF decls = <<>> THEN Nothing
    ELSE LET d == Head(decls)
             this == IF d.kind = "func" /\ d.recv # NoName /\ d.recv = typeName
                     THEN formatFunctionNested(d, filename, FALSE, FALSE, workspaceDir) ELSE Nothing
         IN Cat(this, MethodLines(Tail(decls), filename, typeName, workspaceDir))

\* the inline message of a subsection that could not resolve its position
Failed(tag, filePath, lineNumber, symbolName) ==
    Item(tag, lineNumber, 0, <<symbolName>>, filePath)

\* the body of `for scope := range functionScopes`, for the scopes in `keys`
FunctionScopeLines(keys, ord) ==
    IF keys = <<>> THEN Nothing
    ELSE LET fp == Head(keys).path
             ln == Head(keys).line
             holding == FuncsHolding(TreeOf(fp), ln)
             this ==
                 IF ~CanParse(fp)
                 THEN Res(<<[Item("Error parsing file", 0, 0, <<>>, fp) EXCEPT !.ind = 1]>>, <<>>)
                 ELSE IF holding = {} THEN Nothing
                 ELSE LET r == formatFunctionNested(TreeOf(fp)[Least(holding)], fp, FALSE, FALSE, "")
                      IN Res(Indent(r.out), r.calls)
         IN Cat(this, FunctionScopeLines(Tail(keys), ord))

PackageScopeLines(keys) ==
    [k \in 1..Len(keys) |-> [Item("Package scope", 0, 0, <<>>, keys[k].path) EXCEPT !.ind = 1]]

\* formatReferences once both maps are filled
ReferencesGrouped(failed, functionScopes, packageFiles, ord) ==
    IF functionScopes = {} /\ packageFiles = {}
    THEN Res(failed \o <<Msg("No references found")>>, <<"references">>)
    ELSE LET fns == FunctionScopeLines(MapRange(functionScopes, ord.functionScopes), ord)
         IN Res(failed \o fns.out \o PackageScopeLines(MapRange(packageFiles, ord.packageFiles)),
                <<"references">> \o fns.calls)

\* formatReferences once gopls has answered r: a failure is reported and the
\* (empty) output handled like any other
ReferencesAnswered(r, scopes, ord) ==
    ReferencesGrouped(IF r.err # "" THEN <<Msg("gopls references failed")>> ELSE <<>>,
                      functionScopesOf(scopes), packageFilesOf(scopes), ord)

\* formatReferences once the position is resolved
ReferencesAt(position, failure, ord) ==
    IF position.err # "" THEN Res(<<failure>>, <<>>)
    ELSE ReferencesAnswered(
             executeGoplsCommand(<<"references", position.position>>, insAnswers.references),
             ScopesOf(executeGoplsCommand(<<"references", position.position>>,
                                          insAnswers.references).out),
             ord)

formatReferences(filePath, lineNumber, symbolName, ord) ==
    Cat(Res(<<Msg("References:")>>, <<>>),
        IF filePath = "" \/ lineNumber <= 0 \/ symbolName = <<>>
        THEN Res(<<Msg("Invalid parameters for finding references")>>, <<>>)
        ELSE ReferencesAt(
                 createGoplsPosition(filePath, SourceBytes(filePath), lineNumber, symbolName),
                 Failed("Failed to find references", filePath, lineNumber, symbolName), ord))

\* findTypeAtLine: the first type whose lines hold targetLine
TypesHolding(decls, line) ==
    {i \in 1..Len(decls) : decls[i].kind = "type" /\ line >= decls[i].start /\ line <= decls[i].end}

\* the body of `for fp, lns := range implementers`, for the locations in `locs`
ImplementerLines(locs, ord) ==
    IF locs = <<>> THEN Nothing
    ELSE LET fp == Head(locs).path
             ln == Head(locs).line
             holding == TypesHolding(TreeOf(fp), ln)
             this ==
                 IF ~CanParse(fp) THEN Res(<<[Item("Error parsing file", 0, 0, <<>>, fp) EXCEPT !.ind = 1]>>, <<>>)
                 ELSE IF holding = {}
                 THEN Res(<<[Item("No type found at", ln, 0, <<>>, fp) EXCEPT !.ind = 1]>>, <<>>)
                 ELSE LET r == formatTypeNested(TreeOf(fp)[Least(holding)], fp, FALSE, FALSE, FALSE, "")
                      IN Res(Indent(r.out), r.calls)
         IN Cat(this, ImplementerLines(Tail(locs), ord))

\* implementers[fp] = append(implementers[fp], ln): the lines of one file, in
\* the order gopls gave them
LinesOfFile(output, fp) ==
    LET hit(k) == output[k].kind = "loc" /\ output[k].path = fp
    IN SelectSeq([k \in 1..Len(output) |-> IF hit(k) THEN Key(fp, output[k].line, NoName)
                                                       ELSE Key("", 0, NoName)],
                 LAMBDA x : x.path # "")

RECURSIVE FilesInOrder(_, _)
FilesInOrder(output, fps) ==
    IF fps = <<>> THEN <<>>
    ELSE LinesOfFile(output, Head(fps).path) \o FilesInOrder(output, Tail(fps))

\* the keys of the map `implementers`
ImplementerFiles(output) == {Key(output[k].path, 0, NoName) : k \in WellFormed(output)}

\* formatImplementers once gopls has answered r
ImplementersAnswered(r, implementers, ord) ==
    IF r.err # "" THEN Res(<<Msg("gopls implementation failed")>>, <<"implementation">>)
    ELSE IF r.out = <<>> \/ implementers = {}
    THEN Res(<<Msg("No implementers found")>>, <<"implementation">>)
    ELSE Cat(Res(<<>>, <<"implementation">>),
             ImplementerLines(FilesInOrder(r.out, MapRange(implementers, ord.implementers)), ord))

\* formatImplementers once the position is resolved
ImplementersAt(position, failure, ord) ==
    IF position.err # "" THEN Res(<<failure>>, <<>>)
    ELSE ImplementersAnswered(
             executeGoplsCommand(<<"implementation", position.position>>, insAnswers.implementation),
             ImplementerFiles(executeGoplsCommand(<<"implementation", position.position>>,
                                                  insAnswers.implementation).out),
             ord)

formatImplementers(filePath, lineNumber, symbolName, ord) ==
    Cat(Res(<<Msg("Implementers:")>>, <<>>),
        IF filePath = "" \/ lineNumber <= 0 \/ symbolName = <<>>
        THEN Res(<<Msg("Invalid parameters for finding implementers")>>, <<>>)
        ELSE ImplementersAt(
                 createGoplsPosition(filePath, SourceBytes(filePath), lineNumber, symbolName),
                 Failed("Failed to find implementers", filePath, lineNumber, symbolName), ord))

(* mutant: a failed command is run a second time *)
CallHierarchyAnsweredRetrying(r) ==
    IF r.err # "" THEN Res(<<Msg("gopls call_hierarchy failed")>>, <<"call_hierarchy", "call_hierarchy">>)
    ELSE IF r.out = <<>> THEN Res(<<Msg("No call hierarchy found")>>, <<"call_hierarchy">>)
    ELSE Res(<<Msg("call hierarchy output")>>, <<"call_hierarchy">>)

\* formatCallHierarchy once gopls has answered r
CallHierarchyAnswered(r) ==
    IF r.err # "" THEN Res(<<Msg("gopls call_hierarchy failed")>>, <<"call_hierarchy">>)
    ELSE IF r.out = <<>> THEN Res(<<Msg("No call hierarchy found")>>, <<"call_hierarchy">>)
    ELSE Res(<<Msg("call hierarchy output")>>, <<"call_hierarchy">>)

(* mutant: a failure of gopls leaves the section empty *)
CallHierarchyAtQuiet(position, failure) ==
    IF position.err # "" THEN Res(<<failure>>, <<>>)
    ELSE Res(<<>>, <<"call_hierarchy">>)

\* formatCallHierarchy once the position is resolved
CallHierarchyAt(position, failure) ==
    IF position.err # "" THEN Res(<<failure>>, <<>>)
    ELSE CallHierarchyAnswered(
             executeGoplsCommand(<<"call_hierarchy", position.position>>, insAnswers.call_hierarchy))

formatCallHierarchy(filePath, lineNumber, symbolName) ==
    Cat(Res(<<Msg("Call Hierarchy:")>>, <<>>),
        IF filePath = "" \/ lineNumber <= 0 \/ symbolName = <<>>
        THEN Res(<<Msg("Invalid parameters for finding call hierarchy")>>, <<>>)
        ELSE CallHierarchyAt(
                 createGoplsPosition(filePath, SourceBytes(filePath), lineNumber, symbolName),
                 Failed("Failed to find call hierarchy", filePath, lineNumber, symbolName)))

formatFunction(fn, filename, includeReferences, includeCallHierarchy, workspaceDir, ord) ==
    LET isInWorkspace == isFileInWorkspace(filename, workspaceDir)
        own == Res(FunctionLines(fn), <<>>)
        refs == IF includeReferences /\ isInWorkspace
                THEN formatReferences(filename, fn.start, fn.names[1], ord) ELSE Nothing
        hier == IF includeCallHierarchy /\ isInWorkspace
                THEN formatCallHierarchy(filename, fn.start, fn.names[1]) ELSE Nothing
    IN Cat(Cat(own, refs), hier)

formatType(ts, filename, includeReferences, includeImplementers, includeMethods, workspaceDir, ord) ==
    LET isInWorkspace == isFileInWorkspace(filename, workspaceDir)
        own == Res(TypeLines(ts), <<>>)
        impls == IF IsInterfaceType(ts) /\ includeImplementers /\ isInWorkspace
                 THEN formatImplementers(filename, ts.start, ts.names[1], ord) ELSE Nothing
        methods == IF includeMethods /\ CanParse(filename)
                   THEN MethodLines(TreeOf(filename), filename, ts.names[1], workspaceDir) ELSE Nothing
        refs == IF includeReferences /\ isInWorkspace
                THEN formatReferences(filename, ts.start, ts.names[1], ord) ELSE Nothing
    IN Cat(Cat(Cat(own, impls), methods), refs)

\* formatScope: "Scope:", then the frames of the line, one level deeper each
ScopeLines(filePath, lineNumber) ==
    IF filePath = "" \/ lineNumber <= 0
    THEN <<Msg("Scope:"), Msg("Invalid parameters for determining scope")>>
    ELSE IF ~CanParse(filePath) THEN <<Msg("Scope:"), Msg("Error parsing file")>>
    ELSE LET hierarchy == buildScopeHierarchyAtLine(TreeOf(filePath), lineNumber)
         IN <<Msg("Scope:")>> \o
            [i \in 1..Len(hierarchy) |->
                [Item(hierarchy[i].kind, hierarchy[i].start, hierarchy[i].end,
                      <<hierarchy[i].name>>, "") EXCEPT !.ind = i - 1]]

RECURSIVE ReferencesOfNames(_, _, _, _)
ReferencesOfNames(names, filename, line, ord) ==
    IF names = <<>> THEN Nothing
    ELSE Cat(formatReferences(filename, line, Head(names), ord),
             ReferencesOfNames(Tail(names), filename, line, ord))

formatVariable(vs, filename, includeReferences, includeScope, workspaceDir, ord) ==
    LET isInWorkspace == isFileInWorkspace(filename, workspaceDir)
        own == Res(<<LinesItem(vs.start, vs.end)>> \o DocItems(vs) \o <<CodeItem(vs)>>, <<>>)
        scope == IF includeScope THEN Res(ScopeLines(filename, vs.start), <<>>) ELSE Nothing
        refs == IF includeReferences /\ isInWorkspace
                THEN ReferencesOfNames(vs.names, filename, vs.start, ord) ELSE Nothing
    IN Cat(Cat(own, scope), refs)

\* shouldInclude of formatFile's second pass
AnyExported(names) == \E k \in 1..Len(names) : IsExported(names[k])
shouldInclude(d, includePrivate) ==
    IF d.kind = "value" THEN includePrivate \/ AnyExported(d.names)
    ELSE includePrivate \/ IsExported(d.names[1])

RECURSIVE DeclLines(_, _, _, _, _)
DeclLines(decls, filename, includePrivate, workspaceDir, ord) ==
    IF decls = <<>> THEN Nothing
    ELSE LET d == Head(decls)
             this ==
                 IF ~shouldInclude(d, includePrivate) THEN Nothing
                 ELSE IF d.kind = "func" THEN formatFunction(d, filename, FALSE, FALSE, workspaceDir, ord)
                 ELSE IF d.kind = "type"
                 THEN formatType(d, filename, FALSE, FALSE, FALSE, workspaceDir, ord)
                 ELSE formatVariable(d, filename, FALSE, FALSE, workspaceDir, ord)
         IN Cat(this, DeclLines(Tail(decls), filename, includePrivate, workspaceDir, ord))

\* "File: <path>", then the declarations that pass the filter.  The files of
\* the model have no file comment and import nothing.
formatFile(decls, filename, includePrivate, includeImports, workspaceDir, ord) ==
    Cat(Res(<<Item("File", 0, 0, <<>>, filename)>>, <<>>),
        DeclLines(decls, filename, includePrivate, workspaceDir, ord))

\* the package of the workspace directory: a.go then b.go
PackageFiles == <<"/ws/a.go", "/ws/b.go">>
formatPackage(includePrivate, workspaceDir, ord) ==
    Cat(Cat(Res(<<Item("Directory", 0, 0, <<>>, "/ws"), Msg("Import Path")>>, <<>>),
            formatFile(TreeOf(PackageFiles[1]), PackageFiles[1], includePrivate, FALSE, workspaceDir, ord)),
        Cat(Res(<<Msg("---")>>, <<>>),
            formatFile(TreeOf(PackageFiles[2]), PackageFiles[2], includePrivate, FALSE, workspaceDir, ord)))

\* ---- Inspect
NoErr == [kind |-> "", path |-> "", line |-> 0, name |-> NoName]
\* fmt.Errorf: the message and what it names
Err(kind, path, line, name) == [kind |-> kind, path |-> path, line |-> line, name |-> name]
Returned(r) == [out |-> r.out, err |-> NoErr, calls |-> r.calls]
Aborted(e) == [out |-> <<>>, err |-> e, calls |-> <<>>]

IsAbs(path) == path \in {"/ws", "/ws/a.go", "/out/a.go", "/ws/b.go", "/ws/sub/c.go", "/ws/..gen/a.go"}
HasSuffixGo(path) == path \in {"a.go", "/ws/a.go", "/out/a.go", "gone.go", "/ws/..gen/a.go"}
\* strings.HasPrefix(filePath, "./") || strings.HasPrefix(filePath, "../")
IsDotRelative(path) == path \in {"./gone"}
\* filepath.Join(absWorkspaceDir, filePath)
Join(dir, path) ==
    CASE <<dir, path>> = <<"/ws", "a.go">> -> "/ws/a.go"
      [] <<dir, path>> = <<"/ws", "gone.go">> -> "/ws/gone.go"
      [] <<dir, path>> = <<"/ws", "./gone">> -> "/ws/gone"
      [] OTHER -> path

(* mutant: the path is not looked up on disk *)
resolveFilePathUnchecked(filePath, workspaceDir) ==
    [err |-> "", path |-> IF IsAbs(filePath) THEN filePath ELSE Join(workspaceDir, filePath)]

resolveFilePath(filePath, workspaceDir) ==
    IF IsAbs(filePath)
    THEN IF filePath \in ExistingFiles THEN [err |-> "", path |-> filePath]
         ELSE [err |-> "absolute file path does not exist", path |-> ""]
    ELSE LET candidate == Join(workspaceDir, filePath)
         IN IF candidate \in ExistingFiles THEN [err |-> "", path |-> candidate]
            ELSE [err |-> "file not found", path |-> ""]

resolvePackagePath(pkgPath, workspaceDir) ==
    IF IsDotRelative(pkgPath) THEN resolveFilePath(pkgPath, workspaceDir)
    ELSE [err |-> "", path |-> pkgPath]

\* the helper findSymbol: the index of the first declaration that has the
\* name or holds the line, 0 if there is none
Matches(d, symbolName, lineNumber) ==
    \/ symbolName # NoName /\ \E k \in 1..Len(d.names) : d.names[k] = symbolName
    \/ lineNumber > 0 /\ lineNumber >= d.start /\ lineNumber <= d.end
findSymbol(decls, symbolName, lineNumber) ==
    LET hits == {i \in 1..Len(decls) : Matches(decls[i], symbolName, lineNumber)}
    IN IF hits = {} THEN 0 ELSE Least(hits)

formatSymbolWithContext(d, filename, workspaceDir, ord) ==
    IF d.kind = "func" THEN formatFunction(d, filename, TRUE, TRUE, workspaceDir, ord)
    ELSE IF d.kind = "type" THEN formatType(d, filename, TRUE, TRUE, TRUE, workspaceDir, ord)
    ELSE formatVariable(d, filename, TRUE, TRUE, workspaceDir, ord)

\* packages.Load(cfg, path) with cfg.Dir = workspaceDir: "." is the package of
\* the workspace directory; pkg.Errors is empty when its files parse and
\* type-check (no name declared twice, every receiver type declared).  No
\* other pattern names a package.
TopNames(decls) ==
    {<<i, k>> \in (1..Len(decls)) \X (1..2) : k <= Len(decls[i].names) /\ decls[i].recv = NoName}
TypeChecks(decls) ==
    /\ \A x, y \in TopNames(decls) : decls[x[1]].names[x[2]] = decls[y[1]].names[y[2]] => x = y
    /\ \A i \in 1..Len(decls) : decls[i].recv # NoName =>
           /\ \E j \in 1..Len(decls) : decls[j].kind = "type" /\ decls[j].names[1] = decls[i].recv
           /\ \A j \in 1..Len(decls) :
                  decls[j].recv = decls[i].recv /\ decls[j].names = decls[i].names => j = i
PackageLoads(pkgPath) ==
    /\ pkgPath = "."
    /\ insParse = "tree"
    /\ TypeChecks(TreeOf(PackageFiles[1]) \o TreeOf(PackageFiles[2]))

(* mutant: any error of the parser ends the inspection *)
ParseFailsOnAnyError(parse) == parse # "tree"
\* parser.ParseFile returned an error that is no scanner.ErrorList, or no file
ParseFails(parse) == parse = "notree"

(* mutant: a line alone does not select a declaration *)
FormatEntireFileIgnoringLine(lineNumber, symbolName) == symbolName = NoName
\* Case 1 of a file path: lineNumber == 0 && symbolName == ""
FormatEntireFile(lineNumber, symbolName) == lineNumber = 0 /\ symbolName = NoName

InspectFile(req, ord) ==
    LET resolved == resolveFilePath(req.path, req.workspaceDir) IN
    IF resolved.err # "" THEN Aborted(Err("failed to resolve file path", req.path, 0, NoName))
    ELSE IF ParseFails(insParse) THEN Aborted(Err("failed to parse file", resolved.path, 0, NoName))
    ELSE
    LET decls == TreeOf(resolved.path)
        warning == IF insParse = "partial"
                   THEN Res(<<Msg("WARNING: Syntax errors found")>>, <<>>) ELSE Nothing
        found == findSymbol(decls, req.symbolName, req.lineNumber)
    IN IF FormatEntireFile(req.lineNumber, req.symbolName)
       THEN Returned(Cat(warning, formatFile(decls, resolved.path, req.includePrivate, TRUE,
                                             req.workspaceDir, ord)))
       ELSE IF found # 0
       THEN Returned(Cat(warning, formatSymbolWithContext(decls[found], resolved.path,
                                                          req.workspaceDir, ord)))
       ELSE IF req.symbolName # NoName
       THEN Aborted(Err("symbol not found in file", "", 0, req.symbolName))
       ELSE Aborted(Err("no symbol found at line", "", req.lineNumber, NoName))

InspectPackage(req, ord) ==
    LET resolved == resolvePackagePath(req.path, req.workspaceDir) IN
    IF resolved.err # "" THEN Aborted(Err("failed to resolve package path", req.path, 0, NoName))
    ELSE IF ~PackageLoads(resolved.path)
    THEN Aborted(Err("package has errors", resolved.path, 0, NoName))
    ELSE IF req.symbolName = NoName
    THEN Returned(formatPackage(req.includePrivate, req.workspaceDir, ord))
    ELSE
    LET inA == findSymbol(TreeOf(PackageFiles[1]), req.symbolName, 0)
        inB == findSymbol(TreeOf(PackageFiles[2]), req.symbolName, 0)
    IN IF inA # 0
       THEN Returned(formatSymbolWithContext(TreeOf(PackageFiles[1])[inA], PackageFiles[1],
                                             req.workspaceDir, ord))
       ELSE IF inB # 0
       THEN Returned(formatSymbolWithContext(TreeOf(PackageFiles[2])[inB], PackageFiles[2],
                                             req.workspaceDir, ord))
       ELSE Aborted(Err("symbol not found in package", "", 0, req.symbolName))

\* Inspect(path, lineNumber, symbolName, includePrivate, workspaceDir)
InspectResult(req, ord) ==
    IF req.workspaceDir = "" THEN Aborted(Err("workspace_dir is required", "", 0, NoName))
    ELSE IF ~IsAbs(req.workspaceDir)
    THEN Aborted(Err("workspace_dir must be an absolute path", req.workspaceDir, 0, NoName))
    ELSE IF HasSuffixGo(req.path) THEN InspectFile(req, ord)
    ELSE InspectPackage(req, ord)

\* ---- the inputs of Inspect
\* outcomes of `gopls references`
RefAnswers == {
    [exit |-> "fail", output |-> <<Text>>],
    [exit |-> "ok", output |-> <<>>],
    [exit |-> "ok", output |-> <<Space>>],
    [exit |-> "ok", output |-> <<Junk>>],
    [exit |-> "ok", output |-> <<Loc("/ws/a.go", 2)>>],
    [exit |-> "ok", output |-> <<Loc("/ws/a.go", 2), Space, Loc("/ws/b.go", 2)>>],
    [exit |-> "ok", output |-> <<Loc("/ws/a.go", 4), Loc("/ws/b.go", 4)>>],
    [exit |-> "ok", output |-> <<Loc("/ws/a.go", 2), Loc("/ws/a.go", 3)>>],
    [exit |-> "ok", output |-> <<Loc("/ws/sub/c.go", 1)>>] }
\* outcomes of `gopls implementation`
ImplAnswers == {
    [exit |-> "fail", output |-> <<>>],
    [exit |-> "ok", output |-> <<>>],
    [exit |-> "ok", output |-> <<Loc("/ws/b.go", 4)>>],
    [exit |-> "ok", output |-> <<Loc("/ws/b.go", 2)>>],
    [exit |-> "ok", output |-> <<Loc("/ws/a.go", 2), Loc("/ws/b.go", 4)>>] }
\* outcomes of `gopls call_hierarchy`
CallAnswers == {
    [exit |-> "fail", output |-> <<Text>>],
    [exit |-> "ok", output |-> <<>>],
    [exit |-> "ok", output |-> <<Text>>] }
QuietAnswers ==
    [references |-> [exit |-> "ok", output |-> <<>>],
     implementation |-> [exit |-> "ok", output |-> <<>>],
     call_hierarchy |-> [exit |-> "ok", output |-> <<Text>>]]

Request(path, lineNumber, symbolName, includePrivate, workspaceDir) ==
    [path |-> path, lineNumber |-> lineNumber, symbolName |-> symbolName,
     includePrivate |-> includePrivate, workspaceDir |-> workspaceDir]

\* the targets within a file: the whole file, a symbol, a line, or both
FileTargets ==
    {<<0, NoName, b>> : b \in BOOLEAN}
    \cup {<<0, n, TRUE>> : n \in {NameP, NameLowerP, NameQ, NameT, NameI, NameX}}
    \cup {<<l, NoName, TRUE>> : l \in {-1, 2, 3}}
    \cup {<<2, NameX, TRUE>>, <<3, NameP, TRUE>>}
PackageTargets ==
    {<<0, NoName, b>> : b \in BOOLEAN} \cup {<<0, n, TRUE>> : n \in {NameP, NameZ, NameX}}
    \cup {<<2, NoName, TRUE>>, <<2, NameZ, TRUE>>}

\* fewer targets for the other spellings of the path
FewTargets == {<<0, NoName, FALSE>>, <<0, NameP, TRUE>>, <<0, NameI, TRUE>>, <<2, NoName, TRUE>>}

Requests ==
    {Request(f, 0, NoName, FALSE, w) : f \in {"a.go", "."}, w \in {"", "rel"}}
    \cup {Request("/ws/a.go", t[1], t[2], t[3], "/ws") : t \in FileTargets}
    \cup {Request(f, t[1], t[2], t[3], "/ws") : f \in {"a.go", "/out/a.go", "/ws/..gen/a.go", "gone.go"}, t \in FewTargets}
    \cup {Request(f, t[1], t[2], t[3], "/ws") : f \in {".", "./gone", "nopkg"}, t \in PackageTargets}

\* requests made of a file that does not parse cleanly
BrokenRequests ==
    {Request("/ws/a.go", 0, NoName, TRUE, "/ws"), Request("a.go", 0, NameP, TRUE, "/ws"),
     Request("/ws/a.go", 0, NameX, TRUE, "/ws"), Request("/ws/a.go", -1, NoName, TRUE, "/ws"),
     Request(".", 0, NoName, TRUE, "/ws")}

\* requests for one symbol of the workspace, which run the gopls commands
SymbolRequests ==
    {Request("/ws/a.go", 0, n, TRUE, "/ws") : n \in {NameP, NameLowerP, NameQ, NameT, NameI}}

\* one gopls command at a time answers otherwise than in QuietAnswers
LoudAnswers ==
    {[QuietAnswers EXCEPT !.references = r] : r \in RefAnswers}
    \cup {[QuietAnswers EXCEPT !.implementation = i, !.call_hierarchy = c] :
            i \in ImplAnswers, c \in CallAnswers}

InitInspect ==
    /\ insDecls \in SeqsUpTo(Templates, MaxDecls)
    /\ \/ insParse = "tree" /\ insReq \in Requests /\ insAnswers = QuietAnswers
       \/ insParse \in {"partial", "notree"} /\ insReq \in BrokenRequests /\ insAnswers = QuietAnswers
       \/ insParse = "tree" /\ insReq \in SymbolRequests /\ insAnswers \in LoudAnswers
    /\ insRun = 0
    /\ insOut = <<>>

\* Inspect at rest, for the specifications of the other parts
IdleInspect ==
    /\ insDecls = <<>>
    /\ insParse = "tree"
    /\ insReq = Request("a.go", 0, NoName, FALSE, "/ws")
    /\ insAnswers = QuietAnswers
    /\ insRun = 0
    /\ insOut = <<>>

\* A call of Inspect; each map it ranges over comes in some order.  The call
\* is made twice: same arguments, same files, same cache, same gopls answers.
Inspect ==
    /\ insRun < 2
    /\ \E ord \in Orders : insOut' = Append(insOut, InspectResult(insReq, ord))
    /\ insRun' = insRun + 1
    /\ UNCHANGED <<insDecls, insParse, insReq, insAnswers>>
    /\ UNCHANGED nonInsVars

\* ---- the inputs of buildScopeHierarchyAtLine
\* most statements in the body of the function
MaxStmts == 2
\* the last line a target may name; the file has one line less
MaxScopeLine == 8

\* A statement of the body: [kind, start, end, parent], parent the index of the
\* enclosing statement (0: directly in the body).  Statements are listed in
\* source order, so a new one goes into the last statement or one around it.
RECURSIVE Around(_, _)
Around(stmts, k) == IF k = 0 THEN {0} ELSE {k} \cup Around(stmts, stmts[k].parent)

\* a statement spans the lines of what encloses it, or all but the first and last
Ranges(ps, pe) == {r \in {<<ps, pe>>, <<ps + 1, pe - 1>>} : r[1] <= r[2]}

Extend(stmts, fs, fe) ==
    {Append(stmts, [kind |-> kd, start |-> r[1], end |-> r[2], parent |-> q]) :
        <<kd, q, r>> \in
            {x \in StmtKinds \X (0..Len(stmts)) \X ((fs..fe) \X (fs..fe)) :
                /\ x[2] \in Around(stmts, Len(stmts))
                /\ x[2] # 0 => stmts[x[2]].kind # "other"
                /\ x[3] \in (IF x[2] = 0 THEN Ranges(fs, fe)
                             ELSE Ranges(stmts[x[2]].start, stmts[x[2]].end))}}

RECURSIVE Bodies(_, _, _)
Bodies(n, fs, fe) ==
    IF n = 0 THEN {<<>>}
    ELSE LET shorter == Bodies(n - 1, fs, fe)
         IN shorter \cup UNION {Extend(b, fs, fe) : b \in {c \in shorter : Len(c) = n - 1}}

\* The syntax tree of a body: a construct is followed by its Body block, and a
\* statement inside switch or select stands in a clause of its own.
RECURSIVE Build(_, _, _, _)
Build(stmts, k, nodes, holder) ==
    IF k > Len(stmts) THEN nodes
    ELSE LET st == stmts[k]
             outer == IF st.parent = 0 THEN "block" ELSE stmts[st.parent].kind
             attach0 == IF st.parent = 0 THEN 1 ELSE holder[st.parent]
             inClause == outer \in {"switch", "type-switch", "select"}
             withClause ==
                 IF inClause
                 THEN Append(nodes, Node(IF outer = "select" THEN "comm" ELSE "case",
                                         st.start, st.end, attach0, "stmt"))
                 ELSE nodes
             attach == IF inClause THEN Len(withClause) ELSE attach0
             withStmt == Append(withClause, Node(st.kind, st.start, st.end, attach, "stmt"))
             n == Len(withStmt)
             withBody == IF st.kind \in Constructs
                         THEN Append(withStmt, Node("block", st.start, st.end, n, "body"))
                         ELSE withStmt
             h == IF st.kind \in Constructs THEN n + 1 ELSE IF st.kind = "block" THEN n ELSE 0
         IN Build(stmts, k + 1, withBody, Append(holder, h))

BodyOf(stmts, fs, fe) == Build(stmts, 1, <<Node("block", fs, fe, 0, "body")>>, <<>>)

Decl(kind, name, recv, start, end, body) ==
    [kind |-> kind, names |-> <<name>>, recv |-> recv, iface |-> FALSE, doc |-> FALSE,
     start |-> start, end |-> end, body |-> body]

\* the files: a type or a body-less function on lines 2-3, then a function or
\* a method on lines 4-7 with the given body
ScopeFiles ==
    {<<Decl("type", NameT, NoName, 2, 3, <<>>), Decl("func", NameP, recv, 4, 7, BodyOf(b, 4, 7))>> :
        recv \in {NoName, NameT}, b \in Bodies(MaxStmts, 4, 7)}
    \cup {<<Decl("func", NameQ, NoName, 2, 3, <<>>), Decl("func", NameP, NoName, 4, 7, BodyOf(b, 4, 7))>> :
        b \in Bodies(MaxStmts, 4, 7)}

InitScope ==
    /\ scDecls \in ScopeFiles
    /\ scLine \in 0..MaxScopeLine
    /\ scResult = [state |-> "called", hierarchy |-> <<>>]

\* the scope builder at rest, for the specifications of the other parts
IdleScope ==
    /\ scDecls = <<>>
    /\ scLine = 0
    /\ scResult = [state |-> "called", hierarchy |-> <<>>]

BuildScopeHierarchyAtLine ==
    /\ scResult.state = "called"
    /\ scResult' = [state |-> "returned", hierarchy |-> buildScopeHierarchyAtLine(scDecls, scLine)]
    /\ UNCHANGED <<scDecls, scLine>>
    /\ UNCHANGED nonScVars

\* =================================================================
\*  PART 5.  handleInspect: the target string
\* =================================================================
\* most segments (separated by ':') in the path argument
MaxSegs == 3

\* The pieces a path argument is put together from, none holding a ':' :
\* a.go  /d  ./d  ../d  m  1  12  -1  P  _p1  1P  8/x  and the empty piece
Segments == {
    <<97, 46, 103, 111>>, <<47, 100>>, <<46, 47, 100>>, <<46, 46, 47, 100>>, <<109>>,
    <<49>>, <<49, 50>>, <<45, 49>>, <<80>>, <<95, 112, 49>>, <<49, 80>>, <<56, 47, 120>>, <<>> }

Colon == 58

RECURSIVE JoinWith(_, _)
JoinWith(segs, sep) ==
    IF Len(segs) = 0 THEN <<>>
    ELSE IF Len(segs) = 1 THEN segs[1]
    ELSE segs[1] \o <<sep>> \o JoinWith(Tail(segs), sep)

\* strings.Contains
Contains(s, sub) == \E k \in 1..(Len(s) - Len(sub) + 1) : SubSeq(s, k, k + Len(sub) - 1) = sub

\* strings.Split(s, sep) for a separator of one byte
RECURSIVE SplitOn(_, _)
SplitOn(s, sep) ==
    IF \A k \in 1..Len(s) : s[k] # sep THEN <<s>>
    ELSE LET k == Least({j \in 1..Len(s) : s[j] = sep})
         IN <<SubSeq(s, 1, k - 1)>> \o SplitOn(SubSeq(s, k + 1, Len(s)), sep)

IsDigit(c) == c >= 48 /\ c <= 57

RECURSIVE DecimalValue(_)
DecimalValue(digits) ==
    IF digits = <<>> THEN 0
    ELSE 10 * DecimalValue(SubSeq(digits, 1, Len(digits) - 1)) + (digits[Len(digits)] - 48)

(* mutant: a sign is not accepted *)
AtoiUnsigned(s) ==
    IF s = <<>> \/ \E k \in 1..Len(s) : ~IsDigit(s[k]) THEN [ok |-> FALSE, n |-> 0]
    ELSE [ok |-> TRUE, n |-> DecimalValue(s)]

\* strconv.Atoi: an optional sign, then decimal digits, at least one.  (A
\* value out of the range of int is an error too; no piece is that long.)
Atoi(s) ==
    LET signed == s # <<>> /\ s[1] \in {43, 45}
        digits == IF signed THEN Tail(s) ELSE s
    IN IF digits = <<>> \/ \E k \in 1..Len(digits) : ~IsDigit(digits[k])
       THEN [ok |-> FALSE, n |-> 0]
       ELSE [ok |-> TRUE, n |-> IF s[1] = 45 THEN 0 - DecimalValue(digits) ELSE DecimalValue(digits)]

\* regexp `^\d+(/|$)`
MatchesPort(s) ==
    LET digits == {n \in 1..Len(s) : \A k \in 1..n : IsDigit(s[k])}
    IN \E n \in digits : n = Len(s) \/ s[n + 1] = 47

\* regexp `^[a-zA-Z_][a-zA-Z0-9_]*$`
MatchesIdentifier(s) ==
    /\ s # <<>>
    /\ ~IsDigit(s[1])
    /\ \A k \in 1..Len(s) : isIdentifierChar(s[k])

Args(path, lineNumber, symbolName) ==
    [path |-> path, lineNumber |-> lineNumber, symbolName |-> symbolName]

\* lines 62-78: /path/file.go[:line[:symbol]]
ParseFilePath(pathStr) ==
    LET parts == SplitOn(pathStr, Colon) IN
    IF Len(parts) > 1
    THEN LET ln == Atoi(parts[2])
         IN IF ln.ok
            THEN Args(parts[1], ln.n, IF Len(parts) > 2 THEN parts[3] ELSE <<>>)
            ELSE Args(parts[1], 0, parts[2])
    ELSE Args(parts[1], 0, <<>>)

(* mutant: the last colon with something after it is taken *)
RECURSIVE colonIndexAny(_, _)
colonIndexAny(pathStr, i) ==
    IF i < 0 THEN -1
    ELSE IF pathStr[i + 1] = Colon /\ SubSeq(pathStr, i + 2, Len(pathStr)) # <<>> THEN i
    ELSE colonIndexAny(pathStr, i - 1)

\* lines 84-97: for i := len(pathStr) - 1; i >= 0; i-- { ... break }
RECURSIVE colonIndex(_, _)
colonIndex(pathStr, i) ==
    IF i < 0 THEN -1
    ELSE LET afterColon == SubSeq(pathStr, i + 2, Len(pathStr))
         IN IF /\ pathStr[i + 1] = Colon
               /\ afterColon # <<>> /\ ~MatchesPort(afterColon)
               /\ MatchesIdentifier(afterColon)
            THEN i
            ELSE colonIndex(pathStr, i - 1)

\* lines 80-104: github.com/user/repo/package[:symbol]
ParseImportPath(pathStr) ==
    LET at == colonIndex(pathStr, Len(pathStr) - 1) IN
    IF at > 0
    THEN Args(SubSeq(pathStr, 1, at), 0, SubSeq(pathStr, at + 2, Len(pathStr)))
    ELSE Args(pathStr, 0, <<>>)

\* lines 53-56
isFilePath(pathStr) ==
    \/ Contains(pathStr, <<46, 103, 111>>)
    \/ HasPrefix(pathStr, <<47>>)
    \/ HasPrefix(pathStr, <<46, 47>>)
    \/ HasPrefix(pathStr, <<46, 46, 47>>)

ParseTarget(pathStr) ==
    IF isFilePath(pathStr) THEN ParseFilePath(pathStr) ELSE ParseImportPath(pathStr)

NoCall == [path |-> <<>>, lineNumber |-> 0, symbolName |-> <<>>,
           includePrivate |-> FALSE, workspaceDir |-> ""]

\* handleInspect up to its call of Inspect: the error it returns, or the
\* arguments it passes
handleInspect(pathStr, workspaceDir, onlyExported) ==
    IF pathStr = <<>>
    THEN [state |-> "returned", err |-> "path argument is required", call |-> NoCall]
    ELSE IF workspaceDir = ""
    THEN [state |-> "returned", err |-> "Error: workspace_dir is required.", call |-> NoCall]
    ELSE LET t == ParseTarget(pathStr)
         IN [state |-> "returned", err |-> "",
             call |-> [path |-> t.path, lineNumber |-> t.lineNumber, symbolName |-> t.symbolName,
                       includePrivate |-> ~onlyExported, workspaceDir |-> workspaceDir]]

InitTarget ==
    /\ tgtArgs \in [segs : SeqsUpTo(Segments, MaxSegs) \ {<<>>},
                     workspace_dir : {"", "/ws"}, only_exported : BOOLEAN]
    /\ tgtResult = [state |-> "called", err |-> "", call |-> NoCall]

\* the handler at rest, for the specifications of the other parts
IdleTarget ==
    /\ tgtArgs = [segs |-> <<<<109>>>>, workspace_dir |-> "/ws", only_exported |-> FALSE]
    /\ tgtResult = [state |-> "called", err |-> "", call |-> NoCall]

HandleInspect ==
    /\ tgtResult.state = "called"
    /\ tgtResult' = handleInspect(JoinWith(tgtArgs.segs, Colon), tgtArgs.workspace_dir,
                                   tgtArgs.only_exported)
    /\ UNCHANGED tgtArgs
    /\ UNCHANGED nonTgtVars

\* =================================================================
\*  Specifications
\* =================================================================
vars == <<cacheVars, posVars, renVars, insVars, scVars, tgtVars>>

\* ---- one caller of GetOrParseFile, the files being rewritten meanwhile
NextSeq ==
    \/ \E p \in Paths : CallGetOrParseFile(1, p)
    \/ GetRLock(1)
    \/ GetLookup(1)
    \/ GetRUnlock(1)
    \/ GetStat(1)
    \/ GetRead(1)
    \/ GetParse(1)
    \/ GetStat2(1)
    \/ GetLock(1)
    \/ GetStore(1)
    \/ GetUnlock(1)
    \/ Finish(1)
    \/ \E p \in Paths : ModifyFile(p)

InitSeq == InitCache /\ IdlePos /\ IdleRename /\ IdleInspect /\ IdleScope /\ IdleTarget
SpecSeq == InitSeq /\ [][NextSeq]_vars

\* ---- two callers of the cache, the file a.go being rewritten and deleted
\* meanwhile: thread 1 gets files and asks for the statistics, thread 2 gets
\* a.go too, removes files and clears the cache
NextCache ==
    \/ \E p \in Paths : CallGetOrParseFile(1, p)
    \/ CallGetOrParseFile(2, "a.go")
    \/ CallGetCacheStats(1)
    \/ CallClearCache(2)
    \/ \E p \in Paths : CallRemoveFile(2, p)
    \/ \E t \in Threads : GetRLock(t)
    \/ \E t \in Threads : GetLookup(t)
    \/ \E t \in Threads : GetRUnlock(t)
    \/ \E t \in Threads : GetStat(t)
    \/ \E t \in Threads : GetRead(t)
    \/ \E t \in Threads : GetParse(t)
    \/ \E t \in Threads : GetParseFail(t)
    \/ \E t \in Threads : GetStat2(t)
    \/ \E t \in Threads : GetLock(t)
    \/ \E t \in Threads : GetStore(t)
    \/ \E t \in Threads : GetUnlock(t)
    \/ \E t \in Threads : Finish(t)
    \/ ClearLock(2)
    \/ ClearCache(2)
    \/ RemoveLock(2)
    \/ RemoveFile(2)
    \/ DeferUnlock(2)
    \/ StatsRLock(1)
    \/ GetCacheStats(1)
    \/ ModifyFile("a.go")
    \/ DeleteFile("a.go")

SpecCache == InitSeq /\ [][NextCache]_vars

\* ---- the same two callers on a.go alone, every call that has begun being
\* scheduled: a thread that can take a step takes one in the end, and a
\* thread that can take the lock again and again gets it in the end.  A call
\* of GetOrParseFile begins only while an instance is left for it.
GetSteps == {"rlock", "lookup", "runlock", "stat", "read", "parse", "stat2"}
CanBegin == nextId + Cardinality({t \in Threads : pc[t] \in GetSteps}) <= MaxParses
Acquire(t) ==
    GetRLock(t) \/ GetLock(t) \/ ClearLock(t) \/ RemoveLock(t) \/ StatsRLock(t)
Proceed(t) ==
    \/ GetLookup(t) \/ GetRUnlock(t) \/ GetStat(t) \/ GetRead(t)
    \/ GetParse(t) \/ GetParseFail(t) \/ GetStat2(t)
    \/ GetStore(t) \/ GetUnlock(t)
    \/ ClearCache(t) \/ RemoveFile(t) \/ DeferUnlock(t) \/ GetCacheStats(t)
NextLive ==
    \/ \E t \in Threads : CanBegin /\ CallGetOrParseFile(t, "a.go")
    \/ CallGetCacheStats(1)
    \/ CallClearCache(2)
    \/ CallRemoveFile(2, "a.go")
    \/ \E t \in Threads : Acquire(t)
    \/ \E t \in Threads : Proceed(t)
    \/ \E t \in Threads : Finish(t)
    \/ ModifyFile("a.go")
    \/ DeleteFile("a.go")
Fairness == \A t \in Threads : WF_vars(Proceed(t)) /\ SF_vars(Acquire(t))
SpecLive == InitSeq /\ [][NextLive]_vars /\ Fairness

\* ---- two callers of GetOrParseFile and nothing else, a.go being
\* rewritten meanwhile
NextPar ==
    \/ \E p \in Paths : CallGetOrParseFile(1, p)
    \/ CallGetOrParseFile(2, "a.go")
    \/ \E t \in Threads : GetRLock(t)
    \/ \E t \in Threads : GetLookup(t)
    \/ \E t \in Threads : GetRUnlock(t)
    \/ \E t \in Threads : GetStat(t)
    \/ \E t \in Threads : GetRead(t)
    \/ \E t \in Threads : GetParse(t)
    \/ \E t \in Threads : GetStat2(t)
    \/ \E t \in Threads : GetLock(t)
    \/ \E t \in Threads : GetStore(t)
    \/ \E t \in Threads : GetUnlock(t)
    \/ \E t \in Threads : Finish(t)
    \/ ModifyFile("a.go")
SpecPar == InitSeq /\ [][NextPar]_vars

\* ---- createGoplsPosition on every small file, line number and symbol
InitPosOnly == InitPos /\ InitCache /\ IdleRename /\ IdleInspect /\ IdleScope /\ IdleTarget
NextPos == CreateGoplsPosition
SpecPos == InitPosOnly /\ [][NextPos]_vars

\* C1: a call that finds the file's time not after the entry's returns that
\* very entry, still the cache's entry, without parsing; a call that finds it
\* strictly after parses, installs a new entry for the path and returns it.
C1_HitOrReparse ==
    \A t \in Threads :
        pc[t] = "done" /\ hist[t].stat # "none" =>
            /\ hist[t].stat = "notnewer" =>
                   /\ ret[t] = RetEntry(hist[t].before)
                   /\ ret[t].entry = files[arg[t]]
                   /\ ~hist[t].parsed
            /\ hist[t].stat = "newer" =>
                   /\ hist[t].parsed
                   /\ ret[t].kind = "entry"
                   /\ ret[t].entry # hist[t].before
                   /\ ret[t].entry.id > hist[t].before.id
                   /\ files[arg[t]] = ret[t].entry

\* a call found the file newer, and returned the entry it installed
C1_Witness ==
    /\ pc[1] = "done"
    /\ hist[1].stat = "newer"
    /\ ret[1].kind = "entry"
    /\ ret[1].entry = files[arg[1]]
    /\ hist[1].before.id >= 1
    /\ \E q \in Paths : q # arg[1] /\ files[q] # NoEntry

\* ---- Rename on every combination of small arguments
InitRen == InitRename /\ InitCache /\ IdlePos /\ IdleInspect /\ IdleScope /\ IdleTarget
NextRen == RenameValidate \/ RenamePosition \/ RenameGopls
SpecRen == InitRen /\ [][NextRen]_vars

\* Inspect, called twice with the same arguments
InitIns == InitInspect /\ InitCache /\ IdlePos /\ IdleRename /\ IdleScope /\ IdleTarget
NextInspect == Inspect
SpecInspect == InitIns /\ [][NextInspect]_vars

\* buildScopeHierarchyAtLine on a parsed file and a line
InitSc == InitScope /\ InitCache /\ IdlePos /\ IdleRename /\ IdleInspect /\ IdleTarget
NextScope == BuildScopeHierarchyAtLine
SpecScope == InitSc /\ [][NextScope]_vars

\* handleInspect on every path argument of up to MaxSegs pieces
InitTgt == InitTarget /\ InitCache /\ IdlePos /\ IdleRename /\ IdleInspect /\ IdleScope
NextTarget == HandleInspect
SpecTarget == InitTgt /\ [][NextTarget]_vars

\* ---- the position resolver's contract, stated on the text itself
\* letters, digits and the underscore
IdentifierBytes == (48..57) \cup (65..90) \cup (97..122) \cup {95}

\* the 1-based columns at which T stands in L
Occurrences(L, T) ==
    {c \in 1..(Len(L) - Len(T) + 1) : SubSeq(L, c, c + Len(T) - 1) = T}

\* those of them with no identifier character right before or right after
BoundaryOccurrences(L, T) ==
    {c \in Occurrences(L, T) :
        /\ (c = 1 \/ L[c - 1] \notin IdentifierBytes)
        /\ (c + Len(T) > Len(L) \/ L[c + Len(T)] \notin IdentifierBytes)}

\* the call got as far as scanning the requested line
PosScanned ==
    /\ posResult.state = "returned"
    /\ posLine >= 1
    /\ posSymbol # <<>>
    /\ posFile = "a.go"
    /\ posLine <= Len(Split(posContent))

PosTargetLine == Split(posContent)[posLine]

\* C2: when the token stands at a word boundary somewhere on the line, the
\* position returned is absolutePath:line:column with column the 1-based
\* column of the leftmost boundary-respecting occurrence.
C2_LeftmostBoundaryColumn ==
    PosScanned /\ BoundaryOccurrences(PosTargetLine, posSymbol) # {} =>
        /\ posResult.err = ""
        /\ posResult.position =
              <<"/ws/a.go", posLine, Least(BoundaryOccurrences(PosTargetLine, posSymbol))>>

\* a position was returned past an earlier match inside a longer identifier
C2_Witness ==
    /\ PosScanned
    /\ posResult.err = ""
    /\ Len(posSymbol) = 2
    /\ \E c \in Occurrences(PosTargetLine, posSymbol) : c < posResult.position[3]

\* C3: when the token stands on the line only inside longer identifiers, or not
\* at all, the call fails with "not found at a word boundary" and no position.
C3_NoBoundaryNoPosition ==
    PosScanned /\ BoundaryOccurrences(PosTargetLine, posSymbol) = {} =>
        /\ posResult.err = "not found at a word boundary"
        /\ posResult.position = <<>>

\* the token is on the line, inside a longer identifier only, and is rejected
C3_Witness ==
    /\ PosScanned
    /\ Occurrences(PosTargetLine, posSymbol) # {}
    /\ BoundaryOccurrences(PosTargetLine, posSymbol) = {}
    /\ posResult.err = "not found at a word boundary"

\* the arguments pass Rename's own checks
RenArgsValid ==
    /\ renArgs.filePath # ""
    /\ renArgs.lineNumber > 0
    /\ renArgs.symbolName # <<>>
    /\ renArgs.newName # <<>>

\* C4: Rename to the name the symbol already has returns the message "Symbol
\* '<name>' already has the desired name" and no error; the position is never
\* resolved, the external command never run, no file rewritten.
C4_SameNameShortCircuit ==
    RenArgsValid /\ renArgs.newName = renArgs.symbolName =>
        /\ renCalls = [position |-> 0, gopls |-> 0]
        /\ renWrites = 0
        /\ renPc = "done" =>
               renResult = [out |-> <<"Symbol '", renArgs.symbolName, "' already has the desired name">>,
                            err |-> ""]

\* Rename has returned from a call with equal names, on a file that does not
\* exist: resolving the position would have failed
C4_Witness ==
    /\ renPc = "done"
    /\ RenArgsValid
    /\ renArgs.newName = renArgs.symbolName
    /\ renArgs.filePath = "gone.go"
    /\ renResult.err = ""

\* ---- Inspect: what a caller sees
Runs == 1..Len(insOut)
Tags(out) == {out[k].tag : k \in 1..Len(out)}
Commands(calls) == {calls[k] : k \in 1..Len(calls)}
\* the names spelled in the Code sections of an output
CodeNames(out) ==
    UNION {{out[k].names[j] : j \in 1..Len(out[k].names)} : k \in {i \in 1..Len(out) : out[i].tag = "Code"}}
\* the request asks for a whole file or a whole package of the workspace
WholeFile == HasSuffixGo(insReq.path) /\ insReq.lineNumber = 0 /\ insReq.symbolName = NoName
WholePackage == ~HasSuffixGo(insReq.path) /\ insReq.symbolName = NoName
\* the declarations a whole request walks through
Walked ==
    IF WholeFile THEN DeclsOf(insDecls) ELSE DeclsOf(insDecls) \o DeclsOf(BTemplates)
IsPrivate(name) == ~IsExported(name)

\* C5: in a public-only inspection of a whole file or package a top-level
\* declaration is rendered iff its name is public, and no private name appears
\* in the output, also not one declared together with a public name.
C5_PublicOnlyShowsNoPrivateName ==
    \A r \in Runs :
        (WholeFile \/ WholePackage) /\ ~insReq.includePrivate /\ insOut[r].err = NoErr =>
            /\ \A n \in CodeNames(insOut[r].out) : IsExported(n)
            /\ \A i \in 1..Len(Walked) :
                   IsExported(Walked[i].names[1]) => Walked[i].names[1] \in CodeNames(insOut[r].out)

\* the declaration a request by name finds: the first of a.go with that name
NamedDecls ==
    {i \in 1..Len(insDecls) : \E k \in 1..Len(insDecls[i].names) : insDecls[i].names[k] = insReq.symbolName}
BySymbolInWorkspace ==
    /\ insReq.workspaceDir = "/ws"
    /\ insReq.path \in {"a.go", "/ws/a.go", "."}
    /\ insReq.lineNumber = 0
    /\ NamedDecls # {}
Inspected == insDecls[Least(NamedDecls)]

\* C6: inspecting one type of the workspace yields an "Implementers:" section
\* iff the type is an interface; for any other type there is no such section
\* and `gopls implementation` is not run.
C6_ImplementersIffInterface ==
    \A r \in Runs :
        BySymbolInWorkspace /\ Inspected.kind = "type" /\ insOut[r].err = NoErr =>
            /\ ("Implementers:" \in Tags(insOut[r].out)) <=> Inspected.iface
            /\ ~Inspected.iface => "implementation" \notin Commands(insOut[r].calls)

\* an interface was inspected and its section lists the struct S of b.go
C6_Witness ==
    /\ insRun >= 1
    /\ BySymbolInWorkspace /\ Inspected.kind = "type" /\ Inspected.iface
    /\ "implementation" \in Commands(insOut[1].calls)
    /\ \E k \in 1..Len(insOut[1].out) :
           insOut[1].out[k].tag = "Code" /\ insOut[1].out[k].ind = 1 /\ insOut[1].out[k].names = <<NameS>>

\* C7: the hierarchy buildScopeHierarchyAtLine returns is not empty, begins
\* with the package frame and has no other package frame; every later frame
\* spans the target line.
C7_PackageFirstThenEnclosing ==
    scResult.state = "returned" =>
        LET h == scResult.hierarchy
        IN /\ h # <<>>
           /\ h[1].kind = "package"
           /\ \A i \in 2..Len(h) :
                  h[i].kind # "package" /\ h[i].start <= scLine /\ scLine <= h[i].end

\* a line inside an if inside a block of a method: five frames or more, while
\* another statement of the body does not hold the line
C7_Witness ==
    /\ scResult.state = "returned"
    /\ Len(scResult.hierarchy) >= 5
    /\ \E i, j \in 2..Len(scResult.hierarchy) :
           /\ scResult.hierarchy[i].kind = "method"
           /\ scResult.hierarchy[j].kind = "if"
    /\ scLine = 4
    /\ \E k \in 1..Len(scDecls[2].body) : scDecls[2].body[k].start > scLine

\* ---- two runs of the same request
\* the lines that begin a group of a References or Implementers section
GroupHeads(out) ==
    {k \in 1..Len(out) :
        out[k].ind = 1 /\ out[k].tag \in {"Lines", "Package scope", "Error parsing file", "No type found at"}}
\* the section a line belongs to: the last section header above it
SectionOf(out, k) ==
    LET above == {h \in 1..k : out[h].tag \in {"References:", "Implementers:"}}
    IN IF above = {} THEN 0 ELSE CHOOSE h \in above : \A g \in above : g <= h
AtMostOneGroupPerSection(out) ==
    \A j, k \in GroupHeads(out) : SectionOf(out, j) = SectionOf(out, k) => j = k
\* how often a line occurs in an output
Count(out, x) == Cardinality({k \in 1..Len(out) : out[k] = x})
SameLines(o1, o2) ==
    /\ Len(o1) = Len(o2)
    /\ \A k \in 1..Len(o1) : Count(o1, o1[k]) = Count(o2, o1[k])

\* C8 as stated: two runs of Inspect with the same arguments, files, cache
\* and gopls answers give byte-identical output, also when a References or
\* Implementers section holds more than one group.
C8_RunsByteIdentical ==
    insRun = 2 => insOut[1] = insOut[2]

\* C8, amended: the two runs return the same error, run the same commands and
\* write the same lines; the lines come in the same order whenever no
\* References or Implementers section holds more than one group.
C8_RunsIdenticalUpToGroupOrder ==
    insRun = 2 =>
        /\ insOut[1].err = insOut[2].err
        /\ insOut[1].calls = insOut[2].calls
        /\ SameLines(insOut[1].out, insOut[2].out)
        /\ AtMostOneGroupPerSection(insOut[1].out) => insOut[1].out = insOut[2].out

\* both runs are done and their References section holds one group
C8_Witness ==
    /\ insRun = 2
    /\ GroupHeads(insOut[1].out) # {}
    /\ AtMostOneGroupPerSection(insOut[1].out)
    /\ insOut[1].out = insOut[2].out

\* ---- failures
GoplsCommands == {"references", "implementation", "call_hierarchy"}
Header(cmd) ==
    CASE cmd = "references" -> "References:"
      [] cmd = "implementation" -> "Implementers:"
      [] cmd = "call_hierarchy" -> "Call Hierarchy:"
FailureLine(cmd) ==
    CASE cmd = "references" -> "gopls references failed"
      [] cmd = "implementation" -> "gopls implementation failed"
      [] cmd = "call_hierarchy" -> "gopls call_hierarchy failed"
\* the subsections the inspection of one declaration of the workspace has
SectionsOf(d) ==
    CASE d.kind = "func" -> {"References:", "Call Hierarchy:"}
      [] d.kind = "type" -> IF d.iface THEN {"Implementers:", "References:"} ELSE {"References:"}
      [] d.kind = "value" -> {"Scope:", "References:"}
\* the command was run in the call and gopls failed
FailedIn(r, cmd) == cmd \in Commands(insOut[r].calls) /\ insAnswers[cmd].exit = "fail"

\* C9: when gopls fails in one subsection, Inspect still returns without
\* error; Lines and Code and the other subsections are there, and the failing
\* subsection holds an inline message.
C9_GoplsFailureStaysInline ==
    \A r \in Runs : \A cmd \in GoplsCommands :
        FailedIn(r, cmd) /\ BySymbolInWorkspace =>
            /\ insOut[r].err = NoErr
            /\ {"Lines", "Code"} \subseteq Tags(insOut[r].out)
            /\ SectionsOf(Inspected) \subseteq Tags(insOut[r].out)
            /\ FailureLine(cmd) \in Tags(insOut[r].out)

\* `gopls references` failed while a function was inspected, and the call
\* hierarchy is in the output all the same
C9_Witness ==
    /\ insRun >= 1
    /\ BySymbolInWorkspace
    /\ FailedIn(1, "references")
    /\ "call hierarchy output" \in Tags(insOut[1].out)

\* lines that report, inside the output, an error that is not a gopls failure
InlineErrors ==
    {"Failed to find references", "Failed to find implementers", "Failed to find call hierarchy",
     "Error parsing file"}

\* C10 as stated: every error other than a gopls failure (also a position
\* that cannot be resolved) aborts the inspection, so no output is returned
\* that reports such an error.
C10_OtherErrorsAbort ==
    \A r \in Runs : Tags(insOut[r].out) \cap InlineErrors = {}

\* C10, amended: an error in resolving the workspace, the path, the parse or
\* the symbol of the request aborts the inspection: Inspect returns the error,
\* no output, and has run no command; the message names the path, line or
\* symbol (the message for a missing workspace_dir names none).
C10_TargetErrorsAbort ==
    \A r \in Runs :
        LET e == insOut[r].err
            inFile == HasSuffixGo(insReq.path)
        IN /\ e # NoErr =>
                  /\ insOut[r].out = <<>> /\ insOut[r].calls = <<>>
                  /\ e.kind # "workspace_dir is required" =>
                         e.path # "" \/ e.line # 0 \/ e.name # NoName
           /\ insReq.workspaceDir = "" => e.kind = "workspace_dir is required"
           /\ insReq.workspaceDir = "rel" => e.path = "rel"
           /\ insReq.workspaceDir = "/ws" =>
                  /\ insReq.path \in {"gone.go", "./gone", "nopkg"} => e.path = insReq.path
                  /\ insReq.path \in {"a.go", "/ws/a.go", "/out/a.go"} =>
                         /\ insParse = "notree" => e.kind = "failed to parse file" /\ e.path \in MainFiles
                         /\ insParse # "notree" /\ insReq.symbolName = NameX /\ insReq.lineNumber = 0 =>
                                e.kind = "symbol not found in file" /\ e.name = NameX
                         /\ insParse # "notree" /\ insReq.symbolName = NoName /\ insReq.lineNumber = -1 =>
                                e.kind = "no symbol found at line" /\ e.line = -1

\* the symbol asked for is not in the file: the inspection was aborted
C10_Witness ==
    /\ insRun >= 1
    /\ insDecls # <<>>
    /\ insOut[1].err.kind = "symbol not found in file"
    /\ insOut[1].err.name = NameX
    /\ insOut[1].out = <<>>

\* ---- the workspace and the optional sections
\* the file whose declaration a request by name inspects
TargetFile == IF insReq.path \in {"a.go", "."} THEN "/ws/a.go" ELSE insReq.path
\* the files that lie under the workspace root /ws
UnderWorkspace == {"/ws/a.go", "/ws/b.go", "/ws/sub/c.go", "/ws/..gen/a.go"}
\* the request names one declaration of a.go (or of its copies) by its symbol
ByName == insReq.workspaceDir = "/ws" /\ insReq.lineNumber = 0 /\ NamedDecls # {}
WorkspaceSections == {"Implementers:", "References:", "Call Hierarchy:"}

\* C11: when the file of the inspected declaration lies outside the
\* workspace root, the output has none of the Implementers, References and
\* Call Hierarchy sections and gopls is not run; when it lies inside, the
\* sections the declaration's kind asks for are in the output.
C11_SectionsFollowWorkspace ==
    \A r \in Runs :
        ByName /\ insOut[r].err = NoErr =>
            /\ TargetFile \notin UnderWorkspace =>
                   /\ Tags(insOut[r].out) \cap WorkspaceSections = {}
                   /\ insOut[r].calls = <<>>
            /\ TargetFile \in UnderWorkspace =>
                   (SectionsOf(Inspected) \cap WorkspaceSections) \subseteq Tags(insOut[r].out)

\* ---- the target string, piece by piece
\* the pieces that spell an integer, and the integer each spells
Numerals == {<<<<49>>, 1>>, <<<<49, 50>>, 12>>, <<<<45, 49>>, -1>>}
IsNumeral(piece) == \E x \in Numerals : x[1] = piece
NumeralValue(piece) == (CHOOSE x \in Numerals : x[1] = piece)[2]
\* the pieces that are identifiers: m, P and _p1
IdentifierPieces == {<<109>>, <<80>>, <<95, 112, 49>>}
\* the pieces that hold ".go", and those that begin with "/", "./" or "../"
FileShapedPieces == {<<97, 46, 103, 111>>}
RootedPieces == {<<47, 100>>, <<46, 47, 100>>, <<46, 46, 47, 100>>}
\* the path argument is file-shaped
FileShaped(segs) == segs[1] \in RootedPieces \/ \E k \in 1..Len(segs) : segs[k] \in FileShapedPieces
\* the handler parsed the argument and went on to call Inspect
Parsed == tgtResult.state = "returned" /\ tgtResult.err = ""
Front(segs) == SubSeq(segs, 1, Len(segs) - 1)

\* C12: of a file-shaped path argument the first piece is the path; a second
\* piece that spells an integer is the line number and the third, if there is
\* one, the symbol; a second piece that spells no integer is the symbol, and
\* the line number is 0.
C12_FileTargetPieces ==
    Parsed /\ FileShaped(tgtArgs.segs) =>
        LET segs == tgtArgs.segs
            call == tgtResult.call
        IN /\ call.path = segs[1]
           /\ Len(segs) = 1 => call.lineNumber = 0 /\ call.symbolName = <<>>
           /\ Len(segs) >= 2 /\ IsNumeral(segs[2]) =>
                  /\ call.lineNumber = NumeralValue(segs[2])
                  /\ call.symbolName = IF Len(segs) >= 3 THEN segs[3] ELSE <<>>
           /\ Len(segs) >= 2 /\ ~IsNumeral(segs[2]) =>
                  call.lineNumber = 0 /\ call.symbolName = segs[2]

\* "a.go:-1:P" was parsed: line -1, symbol P
C12_Witness ==
    /\ Parsed
    /\ tgtArgs.segs = <<<<97, 46, 103, 111>>, <<45, 49>>, <<80>>>>
    /\ tgtResult.call.lineNumber = -1
    /\ tgtResult.call.symbolName = <<80>>

\* C13: of a path argument that is not file-shaped, the text after the last
\* ':' is the symbol, and the text before it the path, only if it is an
\* identifier (so not a number); with no ':' or another text after the last
\* one, the whole argument is the path and the symbol is empty.  The line
\* number is 0.  An identifier after the last ':' is taken whenever there is
\* text before that ':'.
C13_ModuleTargetSuffix ==
    Parsed /\ ~FileShaped(tgtArgs.segs) =>
        LET segs == tgtArgs.segs
            last == segs[Len(segs)]
            call == tgtResult.call
            whole == JoinWith(segs, Colon)
            split == call.path = JoinWith(Front(segs), Colon) /\ call.symbolName = last
        IN /\ call.lineNumber = 0
           /\ call.symbolName # <<>> => Len(segs) >= 2 /\ last \in IdentifierPieces /\ split
           /\ Len(segs) = 1 \/ last \notin IdentifierPieces =>
                  call.path = whole /\ call.symbolName = <<>>
           /\ Len(segs) >= 2 /\ last \in IdentifierPieces /\ JoinWith(Front(segs), Colon) # <<>> => split

\* "m:12:_p1" was parsed: path "m:12", symbol _p1
C13_Witness ==
    /\ Parsed
    /\ tgtArgs.segs = <<<<109>>, <<49, 50>>, <<95, 112, 49>>>>
    /\ tgtResult.call.path = <<109, 58, 49, 50>>
    /\ tgtResult.call.symbolName = <<95, 112, 49>>

\* ---- a source with syntax errors
Warning == "WARNING: Syntax errors found"
\* the request names a file that exists, or the package of the workspace
OnFile == insReq.workspaceDir = "/ws" /\ insReq.path \in {"a.go", "/ws/a.go"}
OnPackage == insReq.workspaceDir = "/ws" /\ insReq.path = "."
\* what it asks for is there: the whole, or a declaration by its name
Present == (insReq.lineNumber = 0 /\ insReq.symbolName = NoName) \/ ByName

\* C14 as stated: a source with syntax errors of which the parser yields a
\* partial tree is never fatal to an inspection, of a file or of a package:
\* the inspection returns output that begins with the warning.
C14_BrokenSourceNeverFatal ==
    \A r \in Runs :
        insParse = "partial" /\ (OnFile \/ OnPackage) /\ Present =>
            /\ insOut[r].err = NoErr
            /\ insOut[r].out # <<>> /\ insOut[r].out[1].tag = Warning

\* C14, amended: in the inspection of a file, a partial tree is never the
\* cause of a failure: the inspection goes on, returns output that begins
\* with the warning when what is asked for is in the tree, and otherwise
\* fails for the missing symbol only; no tree at all makes it fail with
\* "failed to parse file"; a clean parse gives no warning.
C14_BrokenFileWarns ==
    \A r \in Runs :
        OnFile =>
            /\ insParse = "partial" =>
                   /\ Present => /\ insOut[r].err = NoErr
                                 /\ insOut[r].out # <<>> /\ insOut[r].out[1].tag = Warning
                   /\ insOut[r].err.kind \in {"", "symbol not found in file", "no symbol found at line"}
            /\ insParse = "notree" =>
                   insOut[r].err.kind = "failed to parse file" /\ insOut[r].out = <<>>
            /\ insParse = "tree" => Warning \notin Tags(insOut[r].out)

\* a function of a file with syntax errors was inspected: the warning, then
\* its lines and code
C14_Witness ==
    /\ insRun >= 1
    /\ insParse = "partial" /\ OnFile /\ ByName
    /\ insOut[1].err = NoErr
    /\ insOut[1].out[1].tag = Warning
    /\ {"Lines", "Code"} \subseteq Tags(insOut[1].out)

\* ---- Rename: what comes before the external command, and what after
\* the number of lines of the file
RenLines == 1 + Cardinality({k \in 1..Len(renContent) : renContent[k] = LF})
\* the first check that fails, in the order of the claim; "" if none does
RenFirstFailure ==
    IF renArgs.filePath = "" THEN "file path cannot be empty"
    ELSE IF renArgs.lineNumber <= 0 THEN "line number must be positive"
    ELSE IF renArgs.symbolName = <<>> THEN "symbol name cannot be empty"
    ELSE IF renArgs.newName = <<>> THEN "new name cannot be empty"
    ELSE IF renArgs.filePath # "a.go" THEN "file does not exist"
    ELSE IF renArgs.lineNumber > RenLines THEN "exceeds file length"
    ELSE IF BoundaryOccurrences(renContent, renArgs.symbolName) = {}
    THEN "not found at a word boundary"
    ELSE ""
\* Rename to the same name returns before the file is looked at
RenSameName == RenArgsValid /\ renArgs.symbolName = renArgs.newName

\* C15: the external rename command runs at most once, and only when the
\* arguments are valid, the file exists, the line is in the file and the
\* symbol stands on it at a word boundary; when one of these checks fails,
\* Rename returns the error of the first that fails, the external command
\* has not run and nothing was rewritten.
C15_RenameChecksBeforeGopls ==
    /\ renCalls.gopls <= 1
    /\ renWrites <= renCalls.gopls
    /\ renCalls.gopls = 1 => RenFirstFailure = "" /\ ~RenSameName
    /\ RenFirstFailure # "" /\ ~RenSameName =>
           /\ renCalls.gopls = 0 /\ renWrites = 0
           /\ renPc = "done" => renResult.err = RenFirstFailure /\ renResult.out = <<>>

\* every check passed and the external command ran, once, and rewrote the file
C15_Witness ==
    /\ renPc = "done"
    /\ renArgs.lineNumber = 1
    /\ renCalls = [position |-> 1, gopls |-> 1]
    /\ renWrites = 1
    /\ renResult.err = ""

\* the external command has run and Rename has returned
RenAnswered == renPc = "done" /\ renCalls.gopls = 1

\* C16 as stated: unless the external command exits successfully with empty
\* output, Rename reports an error.
C16_NonEmptyOutputIsError ==
    RenAnswered /\ ~(renGopls.exit = "ok" /\ renGopls.output = <<>>) => renResult.err # ""

\* C16, amended: Rename reports an error iff the external command fails; when
\* it exits successfully, output that is empty or white space gives the
\* message "Symbol '<old>' renamed to '<new>'", and any other output is
\* returned as the result, without error.
C16_OnlyFailureIsError ==
    RenAnswered =>
        /\ renGopls.exit = "fail" => renResult = [out |-> <<>>, err |-> "failed to rename symbol"]
        /\ renGopls.exit = "ok" =>
               /\ renResult.err = ""
               /\ renGopls.output \in {<<>>, <<Space>>} =>
                      renResult.out = <<"Symbol '", renArgs.symbolName, "' renamed to '", renArgs.newName, "'">>
               /\ renGopls.output = <<Text>> => renResult.out = <<Text>>

\* the external command printed text and exited successfully: Rename returned
\* that text and no error
C16_Witness ==
    /\ RenAnswered
    /\ renGopls = [exit |-> "ok", output |-> <<Text>>]
    /\ renResult = [out |-> <<Text>>, err |-> ""]

\* ---- the cache as a map
Entries == {p \in Paths : files[p] # NoEntry}

\* C17: the cache holds at most one entry per path: the entry under a path is
\* an entry of that path, and no two entries in the cache are of the same path
\* or are the same instance, also after two calls have parsed the same file
\* at the same time and after a reparse.
C17_OneEntryPerPath ==
    /\ \A p \in Entries : files[p].filePath = p
    /\ \A p, q \in Entries :
           files[p].filePath = files[q].filePath \/ files[p].id = files[q].id => p = q
    /\ \A t \in Threads : ret[t].kind = "count" => ret[t].n <= Cardinality(Paths)

\* both threads have parsed a.go and hold an instance each; the cache holds
\* one of the two under a.go
C17_Witness ==
    /\ pc[1] = "done" /\ pc[2] = "done"
    /\ arg[1] = "a.go" /\ arg[2] = "a.go"
    /\ hist[1].parsed /\ hist[2].parsed
    /\ ret[1].kind = "entry" /\ ret[2].kind = "entry"
    /\ ret[1].entry.id # ret[2].entry.id
    /\ files["a.go"] \in {ret[1].entry, ret[2].entry}

\* C18: a path loses its entry only in the step of ClearCache that replaces
\* the map or in the step of RemoveFile that deletes that very path; no step
\* of GetOrParseFile or GetCacheStats removes an entry; RemoveFile(p) leaves
\* the entries of the other paths as they are, ClearCache leaves none.
C18_EntryStaysUntilRemoved ==
    [][ /\ \A p \in Paths :
              files[p] # NoEntry /\ files'[p] = NoEntry =>
                  \E t \in Threads :
                      \/ pc[t] = "clear" /\ pc'[t] = "wunlock"
                      \/ pc[t] = "remove" /\ pc'[t] = "wunlock" /\ arg[t] = p
        /\ \A t \in Threads :
              pc[t] = "remove" /\ pc'[t] = "wunlock" =>
                  /\ files'[arg[t]] = NoEntry
                  /\ \A q \in Paths \ {arg[t]} : files'[q] = files[q]
        /\ \A t \in Threads :
              pc[t] = "clear" /\ pc'[t] = "wunlock" => \A q \in Paths : files'[q] = NoEntry
      ]_vars

\* GetOrParseFile found an entry, then failed (the file was deleted), and the
\* entry is still in the cache, beside that of the other path
C18_Witness ==
    /\ pc[1] = "done"
    /\ ret[1] = RetErr
    /\ hist[1].before # NoEntry
    /\ files[arg[1]] = hist[1].before
    /\ Entries = Paths

\* ---- the mode of an inspection
GoFilePaths == {"a.go", "/ws/a.go", "/out/a.go", "/ws/..gen/a.go", "gone.go"}
AbsoluteRoots == {"/ws"}
\* the lines of an output without the syntax warning
Rest(out) == IF out # <<>> /\ out[1].tag = "WARNING: Syntax errors found" THEN Tail(out) ELSE out
\* what a successful output renders: a package begins with its directory, a
\* file with its path, a declaration (a type with its methods) with its lines
Rendering(out) ==
    IF Rest(out) = <<>> THEN "none"
    ELSE IF Rest(out)[1].tag = "Directory" THEN "package"
    ELSE IF Rest(out)[1].tag = "File" THEN "file"
    ELSE IF Rest(out)[1].tag = "Lines" /\ Tags(out) \cap {"Directory", "File"} = {} THEN "declaration"
    ELSE "none"
\* the run rendered in this mode, or failed with one of these errors
Rendered(o, mode, errors) ==
    \/ o.err = NoErr /\ Rendering(o.out) = mode
    \/ o.err.kind \in errors /\ o.out = <<>>
FilePathErrors == {"failed to resolve file path", "failed to parse file"}
PackagePathErrors == {"failed to resolve package path", "package has errors"}

\* C19: a request with an absolute workspace root runs in one mode, fixed by
\* its arguments.  A .go path with line 0 and no symbol renders the whole
\* file; a .go path with a line or a symbol renders one declaration; any
\* other path renders the whole package when the symbol is empty, whatever
\* the line, and one declaration otherwise.  A run fails only with an error
\* of its own mode.  With an empty or relative workspace root Inspect fails
\* with the workspace_dir error, with no output and no command run.
C19_OneModePerRequest ==
    \A r \in Runs :
        LET o == insOut[r]
            isFile == insReq.path \in GoFilePaths
            whole == insReq.lineNumber = 0 /\ insReq.symbolName = NoName
        IN IF insReq.workspaceDir \notin AbsoluteRoots
           THEN /\ o.err.kind = (IF insReq.workspaceDir = "" THEN "workspace_dir is required"
                                  ELSE "workspace_dir must be an absolute path")
                /\ o.out = <<>> /\ o.calls = <<>>
           ELSE IF isFile /\ whole THEN Rendered(o, "file", FilePathErrors)
           ELSE IF isFile
           THEN Rendered(o, "declaration",
                         FilePathErrors \cup {"symbol not found in file", "no symbol found at line"})
           ELSE IF insReq.symbolName = NoName THEN Rendered(o, "package", PackagePathErrors)
           ELSE Rendered(o, "declaration", PackagePathErrors \cup {"symbol not found in package"})

\* a line alone, on a file of two declarations, rendered one declaration
C19_Witness ==
    /\ insRun >= 1
    /\ insReq = Request("/ws/a.go", 2, NoName, TRUE, "/ws")
    /\ Len(insDecls) = 2
    /\ insOut[1].err = NoErr
    /\ Rendering(insOut[1].out) = "declaration"

\* ---- a line and a name together
\* the request gives a file of the workspace both a line and a symbol
ByLineAndName ==
    /\ insReq.workspaceDir \in AbsoluteRoots
    /\ insReq.path = "/ws/a.go"
    /\ insReq.lineNumber > 0
    /\ insReq.symbolName # NoName
\* the declarations of a.go that hold the line of the request
LineDecls ==
    {i \in 1..Len(insDecls) :
        DeclsOf(insDecls)[i].start <= insReq.lineNumber /\ insReq.lineNumber <= DeclsOf(insDecls)[i].end}
\* the names in the Code section of the declaration an output begins with
FirstCode(out) == LET k == Least({i \in 1..Len(out) : out[i].tag = "Code"}) IN out[k].names
HasName(names, n) == \E k \in 1..Len(names) : names[k] = n

\* C20: given a line and a symbol for a file, the declaration rendered is one
\* that has the symbol as its name, never one that only holds the line; when
\* no declaration matches, Inspect fails with "symbol not found in file".
C20_NameDecidesOverLine ==
    \A r \in Runs :
        ByLineAndName /\ insParse = "tree" =>
            /\ insOut[r].err = NoErr => HasName(FirstCode(insOut[r].out), insReq.symbolName)
            /\ NamedDecls = {} /\ LineDecls = {} =>
                   insOut[r].err.kind = "symbol not found in file"

\* the same, for requests whose line lies in the first declaration of that
\* name or in no declaration that comes before it
NameDecidesWhenLineAgrees ==
    \A r \in Runs :
        /\ ByLineAndName /\ insParse = "tree"
        /\ NamedDecls # {} => \A i \in LineDecls : i >= Least(NamedDecls)
        /\ NamedDecls = {} => LineDecls = {}
        => /\ insOut[r].err = NoErr => HasName(FirstCode(insOut[r].out), insReq.symbolName)
           /\ NamedDecls = {} => insOut[r].err.kind = "symbol not found in file"

\* a declaration of another name, which holds the line and comes first, was
\* rendered although the file declares the symbol further down
EarlierDeclarationRendered ==
    /\ insRun >= 1
    /\ ByLineAndName /\ insParse = "tree"
    /\ NamedDecls # {}
    /\ insOut[1].err = NoErr
    /\ ~HasName(FirstCode(insOut[1].out), insReq.symbolName)

\* ---- the lock around the map
\* where a thread reads cache.files, and where it writes it
ReadsMap(t) == pc[t] \in {"lookup", "stats"}
WritesMap(t) == pc[t] \in {"store", "clear", "remove"}

\* C21: a thread about to read the map holds the read lock and no writer has
\* the lock; a thread about to change the map holds the write lock and there
\* is no reader; so no change of the map meets another change or a lookup.
C21_MapAccessUnderLock ==
    /\ \A t \in Threads : ReadsMap(t) => t \in mu.readers /\ mu.writer = 0
    /\ \A t \in Threads : WritesMap(t) => mu.writer = t /\ mu.readers = {}
    /\ \A t, u \in Threads : WritesMap(t) /\ (WritesMap(u) \/ ReadsMap(u)) => t = u

\* thread 2 is storing its entry while thread 1 waits for the read lock
C21_Witness ==
    /\ pc[2] = "store" /\ mu.writer = 2
    /\ pc[1] = "rlock"
    /\ files["a.go"] # NoEntry

\* ---- progress
\* the thread holds the lock, as reader or as writer
Holds(t) == t \in mu.readers \/ mu.writer = t
\* where a thread waits for the lock
Acquiring(t) == pc[t] \in {"rlock", "lock", "clear_lock", "remove_lock", "stats_rlock"}
\* where a thread stats, reads or parses the file
OnFileIO(t) == pc[t] \in {"stat", "read", "parse", "stat2"}
LockDiscipline ==
    \A t \in Threads :
        /\ OnFileIO(t) => ~Holds(t)
        /\ Acquiring(t) => ~Holds(t)
        /\ pc[t] \in {"idle", "done"} => ~Holds(t)
        /\ Holds(t) => ENABLED Proceed(t)

\* C22: every call that has begun returns.  On the way the lock is not held
\* while the file is read, parsed or stat-ed, is not asked for by a thread that
\* holds it, is held by no thread that has returned, and a thread that holds
\* it can always take its next step, so the threads never all wait.
C22_EveryCallReturns ==
    /\ []LockDiscipline
    /\ \A t \in Threads : (pc[t] # "idle") ~> (pc[t] = "done")

\* thread 1 has returned from a call in which it waited for the lock that
\* thread 2 held as writer
C22_Witness ==
    /\ pc[1] = "done" /\ ret[1].kind = "entry" /\ hist[1].parsed
    /\ pc[2] = "done" /\ ret[2] = RetVoid
    /\ ~Holds(1) /\ ~Holds(2)

\* ---- hits and the content on disk
\* every modification of the file so far has moved its time on
StrictlyTimed(p) == disk[p].mtime = disk[p].ver
\* the call is about to return its entry as a hit
AboutToHit(t) == pc[t] = "stat" /\ IsFresh(disk[arg[t]], cached[t])

\* C26: when every modification moves the file's time on, an entry returned
\* as a hit holds the tree of the content the file has at that moment, and
\* the time recorded in an entry of the cache is the time of the content
\* that was parsed for it.
C26_HitIsCurrent ==
    /\ \A t \in Threads :
           AboutToHit(t) /\ StrictlyTimed(arg[t]) => cached[t].ver = disk[arg[t]].ver
    /\ \A p \in Paths :
           files[p] # NoEntry /\ StrictlyTimed(p) => files[p].modTime = files[p].ver

\* the same for entries whose recorded time is that of the parsed content
HitIsCurrentWhenTimeIsOfContent ==
    \A t \in Threads :
        AboutToHit(t) /\ StrictlyTimed(arg[t]) /\ cached[t].modTime = cached[t].ver =>
            cached[t].ver = disk[arg[t]].ver

\* a hit is about to return the tree of a content the file no longer has,
\* although each modification moved the time on
StaleHit ==
    \E t \in Threads :
        AboutToHit(t) /\ StrictlyTimed(arg[t]) /\ cached[t].ver < disk[arg[t]].ver

\* ---- calls at the same time on a file that stays as it is
NeverModified(p) == disk[p].exists /\ disk[p].ver = 0
\* the instances of the path that the cache or a running call holds
Instances(p) ==
    ({files[p]} \cup {cached[t] : t \in Threads} \cup {ret[t].entry : t \in Threads})
        \cap {e \in [id : 1..(nextId - 1), modTime : {0}, ver : {0}, filePath : {p}] : TRUE}

\* C27: while a file is never modified, the calls of GetOrParseFile for it
\* that have returned have all returned the same instance, and no second
\* instance of the file exists: it was parsed at most once.
C27_OneInstanceWhileUnchanged ==
    \A p \in Paths :
        NeverModified(p) =>
            /\ \A t, u \in Threads :
                   /\ pc[t] = "done" /\ pc[u] = "done" /\ arg[t] = p /\ arg[u] = p
                   /\ ret[t].kind = "entry" /\ ret[u].kind = "entry"
                   => ret[t].entry = ret[u].entry
            /\ Cardinality(Instances(p)) <= 1

\* thread 2 has returned an instance of the unchanged file, and thread 1,
\* whose call begins only now, will find another in the cache: the one its
\* own earlier call, which ran at the same time as thread 2's, stored last
LaterCallGetsOtherInstance ==
    /\ NeverModified("a.go")
    /\ pc[2] = "done" /\ ret[2].kind = "entry"
    /\ pc[1] = "rlock" /\ arg[1] = "a.go"
    /\ files["a.go"] # NoEntry
    /\ files["a.go"] # ret[2].entry

\* ---- a call that fails
\* thread t takes a step of GetOrParseFile
GetStepOf(t) == pc[t] \in GetSteps \cup {"lock", "store", "unlock"} /\ pc'[t] # pc[t]
\* thread t returns an error from GetOrParseFile in this step
FailsNow(t) == GetStepOf(t) /\ pc'[t] = "done" /\ ret'[t] = RetErr

\* C28: a call of GetOrParseFile that fails has not changed the map.  The
\* only step of a call that changes the map is its store; a failure is
\* returned from the read, the parse or the second stat, all before the store,
\* and the failing step leaves every entry, that of the path included, as it is.
C28_FailureLeavesMap ==
    [][ \A t \in Threads :
          /\ GetStepOf(t) /\ pc[t] # "store" => files' = files
          /\ GetStepOf(t) /\ pc[t] \in {"lock", "store", "unlock"} =>
                 pc'[t] \in {"store", "unlock"} \/ (pc'[t] = "done" /\ ret'[t].kind = "entry")
          /\ FailsNow(t) => pc[t] \in {"read", "parse", "stat2"} /\ files' = files
      ]_vars

\* the entry of the path was stale, the call parsed the new content, the file
\* was deleted before the second stat, the call failed: the old entry is in
\* the cache as before
C28_Witness ==
    /\ pc[1] = "done" /\ ret[1] = RetErr
    /\ hist[1].parsed /\ hist[1].stat = "newer"
    /\ hist[1].before # NoEntry
    /\ files[arg[1]] = hist[1].before

\* ---- what a section reports
SectionHeaders == {"References:", "Implementers:", "Call Hierarchy:"}
FailureTags ==
    {"gopls references failed", "gopls implementation failed", "gopls call_hierarchy failed",
     "Failed to find references", "Failed to find implementers", "Failed to find call hierarchy",
     "Invalid parameters for finding references", "Invalid parameters for finding implementers",
     "Invalid parameters for finding call hierarchy"}
NoneTags == {"No references found", "No implementers found", "No call hierarchy found"}
\* a line that belongs to a section: a message of its, or an indented line
InSection(x) == x.ind >= 1 \/ x.tag \in FailureTags \cup NoneTags \cup {"call hierarchy output"}
\* the lines of the section whose header is line h: those that follow it, up
\* to the first line that belongs to no section
SectionBody(out, h) ==
    {k \in (h + 1)..Len(out) : \A j \in (h + 1)..k : InSection(out[j])}
Outcome(x) ==
    IF x.tag \in FailureTags /\ x.ind = 0 THEN "failure"
    ELSE IF x.tag \in NoneTags /\ x.ind = 0 THEN "none"
    ELSE "results"
Outcomes(out, h) == {Outcome(out[k]) : k \in SectionBody(out, h)}
TopHeaders(out) == {h \in 1..Len(out) : out[h].tag \in SectionHeaders /\ out[h].ind = 0}

\* C30: after the header of a References, Implementers or Call Hierarchy
\* section comes one outcome: a failure message, or the "No ... found"
\* message, or the results; a References section that reports the failure of
\* gopls does not say "No references found" as well.
C30_OneOutcomePerSection ==
    \A r \in Runs : \A h \in TopHeaders(insOut[r].out) :
        Cardinality(Outcomes(insOut[r].out, h)) = 1

\* the same for every section but a References section in which gopls failed
OneOutcomeUnlessReferencesFail ==
    \A r \in Runs : \A h \in TopHeaders(insOut[r].out) :
        ~(insOut[r].out[h].tag = "References:" /\ FailedIn(r, "references")) =>
            Cardinality(Outcomes(insOut[r].out, h)) = 1

\* ---- the groups of a References section
\* the location lines `gopls references` gave
Locations == {x \in {insAnswers.references.output[k] : k \in 1..Len(insAnswers.references.output)} :
                 x.kind = "loc"}
\* the files of the model that can be read and parsed, and their declarations
Parsable == {f \in {"/ws/a.go", "/ws/b.go"} : f = "/ws/b.go" \/ insParse # "notree"}
DeclsIn(f) == IF f = "/ws/a.go" THEN DeclsOf(insDecls) ELSE DeclsOf(BTemplates)
\* the top-level functions and methods of the file whose lines hold the line
Enclosing(x) ==
    IF x.path \notin Parsable THEN {}
    ELSE {i \in 1..Len(DeclsIn(x.path)) :
             /\ DeclsIn(x.path)[i].kind = "func"
             /\ DeclsIn(x.path)[i].start <= x.line /\ x.line <= DeclsIn(x.path)[i].end}
\* the group of a location: a function of a file, or the file
GroupOf(x) ==
    IF Enclosing(x) = {} THEN <<x.path, 0>> ELSE <<x.path, Least(Enclosing(x))>>
FunctionGroups == {g \in {GroupOf(x) : x \in Locations} : g[2] # 0}
PackageGroups == {g[1] : g \in {h \in {GroupOf(x) : x \in Locations} : h[2] = 0}}
\* the lines of a section that render a function, and those that name a file
FunctionItems(out, h) == {k \in SectionBody(out, h) : out[k].tag = "Code" /\ out[k].ind = 1}
PackageItems(out, h) == {k \in SectionBody(out, h) : out[k].tag = "Package scope"}
ReferencesHeaders(out) == {h \in TopHeaders(out) : out[h].tag = "References:"}
ReferencesRan(r) == "references" \in Commands(insOut[r].calls) /\ insAnswers.references.exit = "ok"

\* C25: in a References section every location gopls gave falls in one
\* group: the first function or method of its file whose lines hold it, or
\* the file when there is none or when the file does not parse.  The section
\* renders each function group once and each file group as one "Package
\* scope" line, and Inspect does not fail.
C25_OneGroupPerLocation ==
    \A r \in Runs :
        ReferencesRan(r) =>
            /\ insOut[r].err = NoErr
            /\ \A h \in ReferencesHeaders(insOut[r].out) :
                   LET out == insOut[r].out IN
                   /\ Cardinality(FunctionItems(out, h)) = Cardinality(FunctionGroups)
                   /\ {out[k].names : k \in FunctionItems(out, h)}
                          = {DeclsIn(g[1])[g[2]].names : g \in FunctionGroups}
                   /\ Cardinality(PackageItems(out, h)) = Cardinality(PackageGroups)
                   /\ {out[k].path : k \in PackageItems(out, h)} = PackageGroups
                   /\ \A k \in PackageItems(out, h) : out[k].ind = 1

\* two locations in the same function of a.go: the function is rendered once
C25_Witness ==
    /\ insRun >= 1 /\ ReferencesRan(1)
    /\ Locations = {Loc("/ws/a.go", 2), Loc("/ws/a.go", 3)}
    /\ Cardinality(FunctionGroups) = 1 /\ PackageGroups = {}
    /\ \E h \in ReferencesHeaders(insOut[1].out) :
           /\ Cardinality(FunctionItems(insOut[1].out, h)) = 1
           /\ PackageItems(insOut[1].out, h) = {}

\* two locations, one in a function of a.go and one in the type of b.go: one
\* function group and one package-scope line
FunctionAndPackageGrouped ==
    /\ insRun >= 1 /\ ReferencesRan(1)
    /\ Cardinality(Locations) = 2
    /\ Cardinality(FunctionGroups) = 1 /\ PackageGroups = {"/ws/b.go"}
    /\ \E h \in ReferencesHeaders(insOut[1].out) :
           /\ Cardinality(FunctionItems(insOut[1].out, h)) = 1
           /\ Cardinality(PackageItems(insOut[1].out, h)) = 1

\* the location lies in a file that cannot be read: a package-scope line
UnreadableFileGrouped ==
    /\ insRun >= 1 /\ ReferencesRan(1)
    /\ PackageGroups = {"/ws/sub/c.go"}
    /\ \E k \in 1..Len(insOut[1].out) :
           insOut[1].out[k].tag = "Package scope" /\ insOut[1].out[k].path = "/ws/sub/c.go"

\* ---- how often gopls is run
\* the sections of a command at the top level of an output
HeadersOf(out, cmd) == {h \in TopHeaders(out) : out[h].tag = Header(cmd)}

\* C23 as stated: one request runs the external command once.
C23_OneInvocationPerRequest ==
    \A r \in Runs : Len(insOut[r].calls) <= 1

\* C23, amended: each section of a request runs its command at most once,
\* also when the command fails; a request runs as many commands as it has
\* sections.
C23_OneInvocationPerSection ==
    \A r \in Runs : \A cmd \in GoplsCommands :
        /\ Count(insOut[r].calls, cmd) <= Cardinality(HeadersOf(insOut[r].out, cmd))
        /\ FailedIn(r, cmd) =>
               Count(insOut[r].calls, cmd) = Cardinality(HeadersOf(insOut[r].out, cmd))

\* a function was inspected, `gopls call_hierarchy` failed, and the request
\* ran references once and call_hierarchy once
C23_Witness ==
    /\ insRun >= 1
    /\ FailedIn(1, "call_hierarchy")
    /\ insOut[1].calls = <<"references", "call_hierarchy">>
    /\ "gopls call_hierarchy failed" \in Tags(insOut[1].out)

\* C29: gopls is run only for the declaration a single-symbol inspection is
\* about.  A whole file or package runs no command and has no References,
\* Implementers or Call Hierarchy section; no such section stands inside
\* another one; the methods listed under a type bring no section of their
\* own; the commands of a request are at most the names of the declaration
\* plus two; a request that fails has run none.
C29_GoplsOnlyForInspectedDeclaration ==
    \A r \in Runs :
        LET o == insOut[r] IN
        /\ WholeFile \/ WholePackage =>
               o.calls = <<>> /\ Tags(o.out) \cap SectionHeaders = {}
        /\ \A k \in 1..Len(o.out) : o.out[k].tag \in SectionHeaders => o.out[k].ind = 0
        /\ o.err # NoErr => o.calls = <<>>
        /\ o.err = NoErr /\ ~(WholeFile \/ WholePackage) =>
               Len(o.calls) <= Len(FirstCode(o.out)) + 2
        /\ BySymbolInWorkspace /\ Inspected.kind = "type" /\ o.err = NoErr =>
               /\ "Call Hierarchy:" \notin Tags(o.out)
               /\ Cardinality(HeadersOf(o.out, "references")) <= 1
               /\ Len(o.calls) <= 2

\* a type with a method was inspected: the method is listed, and references
\* was the only command run
C29_Witness ==
    /\ insRun >= 1
    /\ BySymbolInWorkspace /\ Inspected.kind = "type" /\ ~Inspected.iface
    /\ Cardinality({k \in 1..Len(insOut[1].out) :
                        insOut[1].out[k].tag = "Code" /\ insOut[1].out[k].ind = 0}) = 2
    /\ insOut[1].calls = <<"references">>

\* ---- the frames of a function body
\* the function of lines 4-7 whose body the line is looked up in
ScopeBody == scDecls[2].body

\* the target line lies inside the body of that function
InFunctionBody ==
    /\ scResult.state = "returned"
    /\ ScopeBody # <<>>
    /\ HoldsLine(ScopeBody[1], scLine)

\* node i and every node around it span the line
RECURSIVE Encloses(_, _, _)
Encloses(nodes, i, line) ==
    /\ nodes[i].start <= line /\ line <= nodes[i].end
    /\ nodes[i].parent # 0 => Encloses(nodes, nodes[i].parent, line)

\* a block that is the Body of the function or of a construct
DirectBody(nodes, i) == nodes[i].kind = "block" /\ nodes[i].role = "body"

\* the frames of the nodes from i on that are in `wanted`, outermost first
RECURSIVE FramesOf(_, _, _, _)
FramesOf(nodes, i, line, wanted) ==
    IF i > Len(nodes) THEN <<>>
    ELSE (IF Encloses(nodes, i, line) /\ i \in wanted
          THEN <<Frame(nodes[i].kind, NoName, NoName, nodes[i].start, nodes[i].end)>>
          ELSE <<>>) \o FramesOf(nodes, i + 1, line, wanted)

\* the frames of the hierarchy that stand for statements of the body
IsStmtFrame(f) == f.kind \in Constructs \cup {"block"}
StmtFrames == SelectSeq(scResult.hierarchy, IsStmtFrame)

\* C24: for a line inside a function body the statement frames of the
\* hierarchy are, outermost first, one frame for each if, for, range, switch,
\* type-switch and select around the line and one "block" frame for each bare
\* block around it that is not the Body of the function or of a construct.
C24_NoFrameForDirectBody ==
    InFunctionBody =>
        LET Wanted == {i \in 1..Len(ScopeBody) :
                          \/ ScopeBody[i].kind \in Constructs
                          \/ ScopeBody[i].kind = "block" /\ ~DirectBody(ScopeBody, i)}
        IN StmtFrames = FramesOf(ScopeBody, 1, scLine, Wanted)

\* what the hierarchy holds instead: a frame for every construct and for every
\* block around the line, the Body of the function and of a construct included
EveryBlockFramed ==
    InFunctionBody =>
        LET Wanted == {i \in 1..Len(ScopeBody) : ScopeBody[i].kind \in Constructs \cup {"block"}}
        IN StmtFrames = FramesOf(ScopeBody, 1, scLine, Wanted)

\* the construct frames alone are those of the constructs around the line
ConstructFramesInOrder ==
    InFunctionBody =>
        LET Wanted == {i \in 1..Len(ScopeBody) : ScopeBody[i].kind \in Constructs}
            IsConstructFrame(f) == f.kind \in Constructs
        IN SelectSeq(StmtFrames, IsConstructFrame) = FramesOf(ScopeBody, 1, scLine, Wanted)

\* a line in a function whose body holds no statement around it, with a
\* "block" frame for the body of the function
BodyBlockFramed ==
    /\ InFunctionBody
    /\ \A i \in 2..Len(ScopeBody) : ~Encloses(ScopeBody, i, scLine)
    /\ StmtFrames = <<Frame("block", NoName, NoName, ScopeBody[1].start, ScopeBody[1].end)>>

\* a line in an if directly in the body: "block", "if", "block"
IfBodyFramedTwice ==
    /\ InFunctionBody
    /\ Len(ScopeBody) = 3
    /\ [k \in 1..Len(StmtFrames) |-> StmtFrames[k].kind] = <<"block", "if", "block">>
    /\ StmtFrames[2].start = StmtFrames[3].start /\ StmtFrames[2].end = StmtFrames[3].end

====
